---- MODULE Spec2Model ----
(***************************************************************************)
(* Model of the XoptYmiZ knowledge-graph store                             *)
(* (src/public/Knowledge Graph Engine.js, class XoptYmiZKnowledgeGraph).   *)
(*                                                                         *)
(* The Neo4j database is modelled as a property graph: node sets per label *)
(* (Domain, Page, Entity), each node carrying a store-assigned node id     *)
(* (nid), and edge sets whose endpoints are nids.  A transaction works on  *)
(* a private copy (tx) of the committed graph; commit installs the copy,   *)
(* rollback discards it.                                                   *)
(*                                                                         *)
(* Strings are sequences of one-character strings so that toLowerCase,     *)
(* trim, toUpperCase and the regex replacement are computed, not assumed.  *)
(* md5/sha256 digests are modelled as injective: a digest is represented   *)
(* by the string that was hashed.                                          *)
(* Confidence and strength are fixed-point numbers: the real value v is    *)
(* the integer v * Scale.                                                  *)
(***************************************************************************)
EXTENDS Integers, Sequences, FiniteSets, TLC

VARIABLES graph, tx, pc, call, pageNode, entityNodes, result, log, calls

vars == <<graph, tx, pc, call, pageNode, entityNodes, result, log, calls>>

\* Bound on the number of storeProcessedContent calls in one behaviour.
MaxCalls == 2

\* Largest number of observations of one entity or relationship in one call.
MaxDup == 2

RECURSIVE Pow2(_)
Pow2(n) == IF n = 0 THEN 1 ELSE 2 * Pow2(n - 1)

\* Fixed-point unit: 1.0 is Scale.  Every stored value is halved at most once
\* per observation, so all averages of the drawn values are exact.
Scale == 10 * Pow2(MaxDup * (MaxCalls + 1))

Half == Scale \div 2

---------------------------------------------------------------------------
(* Strings *)

UpperChars == <<"A","B","C","D","E","F","G","H","I","J","K","L","M",
                "N","O","P","Q","R","S","T","U","V","W","X","Y","Z">>

LowerChars == <<"a","b","c","d","e","f","g","h","i","j","k","l","m",
                "n","o","p","q","r","s","t","u","v","w","x","y","z">>

Digits == {"0","1","2","3","4","5","6","7","8","9"}

Range(s) == {s[i] : i \in DOMAIN s}

LowerChar(ch) ==
    IF \E i \in 1..26 : UpperChars[i] = ch
    THEN LowerChars[CHOOSE i \in 1..26 : UpperChars[i] = ch]
    ELSE ch

UpperChar(ch) ==
    IF \E i \in 1..26 : LowerChars[i] = ch
    THEN UpperChars[CHOOSE i \in 1..26 : LowerChars[i] = ch]
    ELSE ch

toLowerCase(s) == [i \in DOMAIN s |-> LowerChar(s[i])]

toUpperCase(s) == [i \in DOMAIN s |-> UpperChar(s[i])]

RECURSIVE trimStart(_)
trimStart(s) == IF s /= <<>> /\ Head(s) = " " THEN trimStart(Tail(s)) ELSE s

RECURSIVE trimEnd(_)
trimEnd(s) ==
    IF s /= <<>> /\ s[Len(s)] = " " THEN trimEnd(SubSeq(s, 1, Len(s) - 1)) ELSE s

trim(s) == trimEnd(trimStart(s))

\* Position of the first occurrence of sub in s, 0 when there is none.
indexOf(s, sub) ==
    LET hits == {i \in 1..(Len(s) - Len(sub) + 1) :
                    SubSeq(s, i, i + Len(sub) - 1) = sub}
    IN IF hits = {} THEN 0 ELSE CHOOSE i \in hits : \A j \in hits : i <= j

includes(s, sub) == indexOf(s, sub) /= 0

\* String.prototype.replace with a string pattern: first occurrence only.
replaceFirst(s, sub, by) ==
    LET i == indexOf(s, sub)
    IN IF i = 0 THEN s
       ELSE SubSeq(s, 1, i - 1) \o by \o SubSeq(s, i + Len(sub), Len(s))

SchemeSep == <<":", "/", "/">>

Www == <<"w", "w", "w", ".">>

\* The absent value of an optional string field (undefined / null).
None == <<"\\undefined">>

\* new URL(url).hostname: the authority between "://" and the next "/",
\* lower-cased by the URL parser.
hostname(url) ==
    LET a == indexOf(url, SchemeSep) + 3
        rest == SubSeq(url, a, Len(url))
        e == indexOf(rest, <<"/">>)
    IN toLowerCase(IF e = 0 THEN rest ELSE SubSeq(rest, 1, e - 1))

extractDomain(url) ==
    IF url = None \/ ~includes(url, SchemeSep) THEN None
    ELSE replaceFirst(hostname(url), Www, <<>>)

generateIdCaseSensitive(text) == trim(text)

generateId(text) == toLowerCase(trim(text))

normalizeRelationshipType(type) ==
    LET up == toUpperCase(type)
    IN [i \in DOMAIN up |->
          IF up[i] \in Range(UpperChars) \cup Digits \cup {"_"} THEN up[i] ELSE "_"]

\* JavaScript's `x || d` on numbers: 0 is falsy.
OrDefault(x, d) == IF x = 0 THEN d ELSE x

\* `s || d` on optional strings.
OrElse(s, d) == IF s = None \/ s = <<>> THEN d ELSE s

DefaultImportance == 5

DefaultConfidence == (8 * Scale) \div 10

DefaultStrength == (5 * Scale) \div 10

DefaultRelConfidence == (7 * Scale) \div 10

RelatedTo == <<"R","E","L","A","T","E","D","_","T","O">>

Untitled == <<"U","n","t","i","t","l","e","d">>

ContentScheme == <<"c","o","n","t","e","n","t",":","/","/">>

Max(a, b) == IF a > b THEN a ELSE b

---------------------------------------------------------------------------
(* The property graph *)

EmptyGraph ==
    [domains |-> {}, pages |-> {}, entities |-> {},
     dcp |-> {}, pce |-> {}, rels |-> {}]

\* The marker of "no open transaction".
NoTx == [closed |-> TRUE]

Nids(g) == {n.nid : n \in g.domains \cup g.pages \cup g.entities}

\* The store assigns a fresh node id to every created node.
NewNid(g) == IF Nids(g) = {} THEN 1
             ELSE 1 + CHOOSE m \in Nids(g) : \A n \in Nids(g) : n <= m

Avg(a, b) == (a + b) \div 2

\* MERGE (d:Domain {name: $domain}) ON CREATE SET ... ON MATCH SET lastProcessed
createDomainNode(g, domain) ==
    IF \E d \in g.domains : d.name = domain
    THEN g
    ELSE [g EXCEPT !.domains = @ \cup
            {[nid |-> NewNid(g), name |-> domain, id |-> generateId(domain),
              pageCount |-> 1, entityCount |-> 0]}]

pageIdOf(c) ==
    IF c.id /= None THEN c.id ELSE generateId(OrElse(c.url, c.title))

pageUrlOf(c) == OrElse(c.url, ContentScheme \o pageIdOf(c))

\* MERGE (p:Page {url: $url}) ON CREATE SET ... version = 1
\*                            ON MATCH SET ... version = version + 1
mergePageNoIncrement(g, c) ==
    LET url == pageUrlOf(c)
    IN IF \E p \in g.pages : p.url = url
       THEN [g EXCEPT !.pages =
               {IF p.url = url
                THEN [p EXCEPT !.title = OrElse(c.title, Untitled)]
                ELSE p : p \in @}]
       ELSE [g EXCEPT !.pages = @ \cup
               {[nid |-> NewNid(g), url |-> url, id |-> pageIdOf(c),
                 title |-> OrElse(c.title, Untitled), version |-> 1,
                 meta |-> None]}]

mergePage(g, c) ==
    LET url == pageUrlOf(c)
    IN IF \E p \in g.pages : p.url = url
       THEN [g EXCEPT !.pages =
               {IF p.url = url
                THEN [p EXCEPT !.title = OrElse(c.title, Untitled),
                               !.version = @ + 1]
                ELSE p : p \in @}]
       ELSE [g EXCEPT !.pages = @ \cup
               {[nid |-> NewNid(g), url |-> url, id |-> pageIdOf(c),
                 title |-> OrElse(c.title, Untitled), version |-> 1,
                 meta |-> None]}]

\* The link statement overwriting the domain's links instead of merging one.
linkDomainReplacing(g, domain, pageId) ==
    [g EXCEPT !.dcp =
        {[from |-> d.nid, to |-> p.nid] :
            <<d, p>> \in {dp \in g.domains \X g.pages :
                            dp[1].name = domain /\ dp[2].id = pageId}}]

\* MATCH (d:Domain {name: $domain}), (p:Page {id: $pageId})
\* MERGE (d)-[:CONTAINS]->(p)
linkDomain(g, domain, pageId) ==
    [g EXCEPT !.dcp = @ \cup
        {[from |-> d.nid, to |-> p.nid] :
            <<d, p>> \in {dp \in g.domains \X g.pages :
                            dp[1].name = domain /\ dp[2].id = pageId}}]

\* createPageNode: the graph after the two statements, and the properties of
\* the merged page (result.records[0].get('p').properties).
createPageNode(g, c) ==
    LET g1 == mergePage(g, c)
        node == CHOOSE p \in g1.pages : p.url = pageUrlOf(c)
        domain == extractDomain(c.url)
    IN [graph |-> IF domain /= None THEN linkDomain(g1, domain, pageIdOf(c))
                  ELSE g1,
        pageNode |-> node]

\* MERGE (e:Entity {id: $entityId}) ON CREATE SET ... ON MATCH SET ...
mergeEntity(g, entity) ==
    LET entityId == generateId(entity.text)
        importance == OrDefault(entity.importance, DefaultImportance)
        confidence == OrDefault(entity.confidence, DefaultConfidence)
    IN IF \E e \in g.entities : e.id = entityId
       THEN [g EXCEPT !.entities =
               {IF e.id = entityId
                THEN [e EXCEPT !.importance = IF importance > @ THEN importance ELSE @,
                               !.confidence = Avg(confidence, @),
                               !.mentionCount = @ + 1]
                ELSE e : e \in @}]
       ELSE [g EXCEPT !.entities = @ \cup
               {[nid |-> NewNid(g), id |-> entityId, text |-> entity.text,
                 type |-> IF entity.type = "" THEN "OTHER" ELSE entity.type,
                 importance |-> importance, confidence |-> confidence,
                 mentionCount |-> 1]}]

\* MATCH (p:Page {id: $pageId}), (e:Entity {id: $entityId})
\* MERGE (p)-[r:CONTAINS]->(e) ON CREATE SET ... ON MATCH SET importance = max
mergeContains(g, entity, pageId) ==
    LET entityId == generateId(entity.text)
        importance == OrDefault(entity.importance, DefaultImportance)
        confidence == OrDefault(entity.confidence, DefaultConfidence)
        rows == {pe \in g.pages \X g.entities :
                    pe[1].id = pageId /\ pe[2].id = entityId}
        hit(r) == \E pe \in rows : r.from = pe[1].nid /\ r.to = pe[2].nid
    IN [g EXCEPT !.pce =
          {IF hit(r)
           THEN [r EXCEPT !.importance = IF importance > @ THEN importance ELSE @]
           ELSE r : r \in @}
          \cup
          {[from |-> pe[1].nid, to |-> pe[2].nid,
            importance |-> importance, confidence |-> confidence] :
             pe \in {x \in rows :
                       ~\E r \in g.pce : r.from = x[1].nid /\ r.to = x[2].nid}}]

\* The loop of createEntityNodes; map is the entityNodes Map (text -> node).
RECURSIVE entityLoop(_, _, _, _)
entityLoop(g, map, entities, pageId) ==
    IF entities = <<>> THEN [graph |-> g, entityNodes |-> map]
    ELSE LET entity == Head(entities)
             g1 == mergeEntity(g, entity)
             node == CHOOSE e \in g1.entities : e.id = generateId(entity.text)
             g2 == mergeContains(g1, entity, pageId)
         IN entityLoop(g2, (entity.text :> node) @@ map, Tail(entities), pageId)

createEntityNodes(g, entities, pageId) ==
    entityLoop(g, <<>>, entities, pageId)

\* MATCH (e1:Entity {id: $fromId}), (e2:Entity {id: $toId})
\* CREATE (e1)-[r:relType]->(e2): the statement without the MERGE match.
createRelationship(g, fromId, toId, relType, strength, confidence) ==
    [g EXCEPT !.rels = @ \cup
       {[from |-> ee[1].nid, to |-> ee[2].nid, type |-> relType,
         strength |-> strength, confidence |-> confidence] :
          ee \in {x \in g.entities \X g.entities :
                    x[1].id = fromId /\ x[2].id = toId}}]

\* MATCH (e1:Entity {id: $fromId}), (e2:Entity {id: $toId})
\* MERGE (e1)-[r:relType]->(e2) ON CREATE SET ... ON MATCH SET averages
mergeRelationship(g, fromId, toId, relType, strength, confidence) ==
    LET rows == {ee \in g.entities \X g.entities :
                    ee[1].id = fromId /\ ee[2].id = toId}
        match(r, ee) == r.from = ee[1].nid /\ r.to = ee[2].nid /\ r.type = relType
        hit(r) == \E ee \in rows : match(r, ee)
    IN [g EXCEPT !.rels =
          {IF hit(r)
           THEN [r EXCEPT !.strength = Avg(@, strength),
                          !.confidence = Avg(@, confidence)]
           ELSE r : r \in @}
          \cup
          {[from |-> ee[1].nid, to |-> ee[2].nid, type |-> relType,
            strength |-> strength, confidence |-> confidence] :
             ee \in {x \in rows : ~\E r \in g.rels : match(r, x)}}]

\* The loop of createEntityRelationships; entityNodes is the Map built by
\* createEntityNodes (keyed by the raw entity text).
RECURSIVE createEntityRelationships(_, _, _)
createEntityRelationships(g, relationships, map) ==
    IF relationships = <<>> THEN g
    ELSE LET relationship == Head(relationships)
             found == relationship.from \in DOMAIN map
                      /\ relationship.to \in DOMAIN map
             g1 == IF ~found THEN g
                   ELSE mergeRelationship(g,
                          map[relationship.from].id, map[relationship.to].id,
                          normalizeRelationshipType(OrElse(relationship.type, RelatedTo)),
                          OrDefault(relationship.strength, DefaultStrength),
                          OrDefault(relationship.confidence, DefaultRelConfidence))
         IN createEntityRelationships(g1, Tail(relationships), map)

\* MATCH (p:Page {id: $pageId}) SET p.categories = ..., p.language = ...
storeSemanticMetadata(g, semanticData, pageId) ==
    IF semanticData = None THEN g
    ELSE [g EXCEPT !.pages =
            {IF p.id = pageId THEN [p EXCEPT !.meta = semanticData] ELSE p :
               p \in @}]

PagesOf(g, d) == {p \in g.pages : [from |-> d.nid, to |-> p.nid] \in g.dcp}

EntitiesOf(g, p) == {e \in g.entities : \E r \in g.pce : r.from = p.nid /\ r.to = e.nid}

EntitiesIn(g, d) == UNION {EntitiesOf(g, p) : p \in PagesOf(g, d)}

\* The statistics patched from the previous values instead of recounted.
updateDomainStatisticsIncrement(g, domain) ==
    [g EXCEPT !.domains =
       {IF d.name = domain
        THEN [d EXCEPT !.pageCount = @ + 1,
                       !.entityCount = @ + Cardinality(EntitiesIn(g, d))]
        ELSE d : d \in @}]

\* MATCH (d) OPTIONAL MATCH (d)-[:CONTAINS]->(p) OPTIONAL MATCH (p)-[:CONTAINS]->(e)
\* SET d.pageCount = count(DISTINCT p), d.entityCount = count(DISTINCT e)
updateDomainStatistics(g, domain) ==
    [g EXCEPT !.domains =
       {IF d.name = domain
        THEN [d EXCEPT !.pageCount = Cardinality(PagesOf(g, d)),
                       !.entityCount = Cardinality(EntitiesIn(g, d))]
        ELSE d : d \in @}]

---------------------------------------------------------------------------
(* Inputs of storeProcessedContent *)

UrlLow == <<"h","t","t","p",":","/","/","a",".","i","o","/","p">>

\* The same address with an upper-case path: another url, the same page id.
UrlUp == <<"h","t","t","p",":","/","/","a",".","i","o","/","P">>

UrlWww == <<"h","t","t","p",":","/","/","w","w","w",".","B",".","i","o","/">>

TitleDoc == <<"D","o","c">>

TextAc == <<"A","c">>

\* "Ac" in another letter case and with surrounding whitespace.
TextAcVariant == <<" ","a","c"," ">>

TextBo == <<"B","o">>

TextZed == <<"Z","e","d">>

Ent(text, type, importance, confidence) ==
    [text |-> text, type |-> type, importance |-> importance,
     confidence |-> confidence]

Rel(from, to, type, strength, confidence) ==
    [from |-> from, to |-> to, type |-> type, strength |-> strength,
     confidence |-> confidence]

PageInputs ==
    { [id |-> None, url |-> UrlLow, title |-> TitleDoc],
      [id |-> None, url |-> UrlUp, title |-> None],
      [id |-> <<"k">>, url |-> UrlWww, title |-> TitleDoc],
      [id |-> None, url |-> None, title |-> TitleDoc] }

Payloads ==
    { [entities |-> <<>>, relationships |-> <<>>, semanticData |-> None],
      [entities |-> <<Ent(TextAc, "ORGANIZATION", 5, Half)>>,
       relationships |-> <<>>, semanticData |-> None],
      [entities |-> <<Ent(TextAcVariant, "", 8, 0), Ent(TextBo, "PERSON", 0, Scale)>>,
       relationships |-> <<Rel(TextAcVariant, TextBo, None, 0, Half)>>,
       semanticData |-> <<"e","n">>],
      [entities |-> <<Ent(TextAc, "ORGANIZATION", 8, Scale), Ent(TextBo, "PERSON", 7, Half)>>,
       relationships |-> <<Rel(TextAc, TextBo, <<"r","e","l","a","t","e","d"," ","t","o">>, Scale, Scale),
                           Rel(TextBo, TextZed, None, Half, Half)>>,
       semanticData |-> <<"f","r">>],
      [entities |-> <<Ent(TextAc, "ORGANIZATION", 5, Half), Ent(TextAcVariant, "", 8, Scale)>>,
       relationships |-> <<>>, semanticData |-> None] }

Contents ==
    { [id |-> p.id, url |-> p.url, title |-> p.title, entities |-> l.entities,
       relationships |-> l.relationships, semanticData |-> l.semanticData] :
        p \in PageInputs, l \in Payloads }

---------------------------------------------------------------------------
(* storeProcessedContent, one step per awaited statement *)

NoNode == [nid |-> 0]

NoResult == [kind |-> "none"]

TxSteps == {"domain", "page", "entities", "relationships", "metadata",
            "stats", "commit"}

Init ==
    /\ graph = EmptyGraph
    /\ tx = NoTx
    /\ pc = "idle"
    /\ call = CHOOSE c \in Contents : TRUE
    /\ pageNode = NoNode
    /\ entityNodes = <<>>
    /\ result = NoResult
    /\ log = <<>>
    /\ calls = 0

\* session.beginTransaction()
Begin(c) ==
    /\ pc = "idle"
    /\ calls < MaxCalls
    /\ calls' = calls + 1
    /\ call' = c
    /\ tx' = graph
    /\ pc' = "domain"
    /\ pageNode' = NoNode
    /\ entityNodes' = <<>>
    /\ result' = NoResult
    /\ UNCHANGED <<graph, log>>

StepDomain ==
    /\ pc = "domain"
    /\ LET domain == extractDomain(call.url)
       IN tx' = IF domain /= None THEN createDomainNode(tx, domain) ELSE tx
    /\ pc' = "page"
    /\ UNCHANGED <<graph, call, pageNode, entityNodes, result, log, calls>>

StepPage ==
    /\ pc = "page"
    /\ LET r == createPageNode(tx, call)
       IN /\ tx' = r.graph
          /\ pageNode' = r.pageNode
    /\ pc' = "entities"
    /\ UNCHANGED <<graph, call, entityNodes, result, log, calls>>

StepEntities ==
    /\ pc = "entities"
    /\ LET r == createEntityNodes(tx, call.entities, pageNode.id)
       IN /\ tx' = r.graph
          /\ entityNodes' = r.entityNodes
    /\ pc' = "relationships"
    /\ UNCHANGED <<graph, call, pageNode, result, log, calls>>

StepRelationships ==
    /\ pc = "relationships"
    /\ tx' = createEntityRelationships(tx, call.relationships, entityNodes)
    /\ pc' = "metadata"
    /\ UNCHANGED <<graph, call, pageNode, entityNodes, result, log, calls>>

StepMetadata ==
    /\ pc = "metadata"
    /\ tx' = storeSemanticMetadata(tx, call.semanticData, pageNode.id)
    /\ pc' = "stats"
    /\ UNCHANGED <<graph, call, pageNode, entityNodes, result, log, calls>>

StepStats ==
    /\ pc = "stats"
    /\ LET domain == extractDomain(call.url)
       IN tx' = IF domain /= None THEN updateDomainStatistics(tx, domain) ELSE tx
    /\ pc' = "commit"
    /\ UNCHANGED <<graph, call, pageNode, entityNodes, result, log, calls>>

\* await txc.commit(), then the receipt is returned.
Commit ==
    /\ pc = "commit"
    /\ graph' = tx
    /\ tx' = NoTx
    /\ log' = Append(log, call)
    /\ result' = [kind |-> "receipt", success |-> TRUE, pageId |-> pageNode.id,
                  entitiesStored |-> Len(call.entities),
                  relationshipsStored |-> Len(call.relationships)]
    /\ pc' = "idle"
    /\ UNCHANGED <<call, pageNode, entityNodes, calls>>

\* A statement of the transaction (or the commit) throws.  Inside the two
\* loops the statements of the earlier iterations have already run.
StepThrows ==
    /\ pc \in TxSteps
    /\ \/ /\ pc = "entities"
          /\ \E k \in 0..(Len(call.entities) - 1) :
                tx' = createEntityNodes(tx, SubSeq(call.entities, 1, k), pageNode.id).graph
       \/ /\ pc = "relationships"
          /\ \E k \in 0..(Len(call.relationships) - 1) :
                tx' = createEntityRelationships(tx, SubSeq(call.relationships, 1, k), entityNodes)
       \/ /\ pc \notin {"entities", "relationships"}
          /\ tx' = tx
    /\ result' = [kind |-> "thrown", step |-> pc]
    /\ pc' = "rollback"
    /\ UNCHANGED <<graph, call, pageNode, entityNodes, log, calls>>

\* The catch block keeps what the transaction wrote instead of undoing it.
TxRollbackKeepsWrites ==
    /\ pc = "rollback"
    /\ graph' = tx
    /\ tx' = NoTx
    /\ result' = [kind |-> "error", name |-> "KnowledgeGraphError", step |-> result.step]
    /\ pc' = "idle"
    /\ UNCHANGED <<call, pageNode, entityNodes, log, calls>>

\* catch: await txc.rollback(); throw error -> KnowledgeGraphError; finally
\* session.close().
TxRollback ==
    /\ pc = "rollback"
    /\ graph' = graph
    /\ tx' = NoTx
    /\ result' = [kind |-> "error", name |-> "KnowledgeGraphError", step |-> result.step]
    /\ pc' = "idle"
    /\ UNCHANGED <<call, pageNode, entityNodes, log, calls>>

\* The rollback failing with the session left open: no finally block.
TxRollbackThrowsNoClose ==
    /\ pc = "rollback"
    /\ result' = [kind |-> "error", name |-> "KnowledgeGraphError", step |-> "rollback"]
    /\ pc' = "idle"
    /\ UNCHANGED <<graph, tx, call, pageNode, entityNodes, log, calls>>

\* catch: await txc.rollback() itself throws; the outer catch wraps that error
\* in KnowledgeGraphError and finally session.close() discards the
\* transaction that is still open.
TxRollbackThrows ==
    /\ pc = "rollback"
    /\ graph' = graph
    /\ tx' = NoTx
    /\ result' = [kind |-> "error", name |-> "KnowledgeGraphError", step |-> "rollback"]
    /\ pc' = "idle"
    /\ UNCHANGED <<call, pageNode, entityNodes, log, calls>>

---------------------------------------------------------------------------
(* Read operations: each runs its queries with session.run and writes nothing *)

Limit(s, n) == SubSeq(s, 1, IF n < Len(s) THEN n ELSE Len(s))

DomainsNamed(g, domain) == {d \in g.domains : d.name = domain}

\* MATCH (d:Domain {name})-[:CONTAINS]->(p:Page)-[pc:CONTAINS]->(e:Entity)
\* WITH p, collect(e), avg(pc.importance), count(e): one row per page that
\* contains at least one entity.
RECURSIVE SumImportance(_)
SumImportance(edges) ==
    IF edges = {} THEN 0
    ELSE LET r == CHOOSE x \in edges : TRUE
         IN r.importance + SumImportance(edges \ {r})

llmsRows(g, domain) ==
    {[url |-> p.url, title |-> p.title,
      entities |-> {e.id : e \in EntitiesOf(g, p)},
      entityCount |-> Cardinality({r \in g.pce : r.from = p.nid}),
      sumImportance |-> SumImportance({r \in g.pce : r.from = p.nid})] :
        p \in {q \in UNION {PagesOf(g, d) : d \in DomainsNamed(g, domain)} :
                 EntitiesOf(g, q) /= {}}}

\* ORDER BY CASE $sortBy ... END DESC; avgImportance = sumImportance / entityCount.
llmsHigher(sortBy, a, b) ==
    IF sortBy = "entities" THEN a.entityCount > b.entityCount
    ELSE a.sumImportance * b.entityCount > b.sumImportance * a.entityCount

\* The rows in one of the orders the ORDER BY allows: no row is placed before
\* a row that ranks strictly higher.
llmsOrderings(rows, sortBy) ==
    {s \in [1..Cardinality(rows) -> rows] :
        /\ \A i, j \in DOMAIN s : i /= j => s[i] /= s[j]
        /\ \A i, j \in DOMAIN s : i < j => ~llmsHigher(sortBy, s[j], s[i])}

SortKeys == {"importance", "entities"}

PageLimits == {1, 50}

generateLLMsTxt(domain, maxPages, sortBy) ==
    /\ pc = "idle"
    /\ LET rows == llmsRows(graph, domain)
       IN IF rows = {}
          THEN result' = [kind |-> "error", name |-> "KnowledgeGraphError",
                          step |-> "llms"]
          ELSE \E s \in llmsOrderings(rows, sortBy) :
                 result' = [kind |-> "llms", domain |-> domain,
                            pages |-> Limit(s, maxPages)]
    /\ UNCHANGED <<graph, tx, pc, call, pageNode, entityNodes, log, calls>>

\* overview, topEntities (by importance, mentions) and contentGaps queries.
contentGaps(g, domain) ==
    {e.id : e \in {x \in UNION {EntitiesIn(g, d) : d \in DomainsNamed(g, domain)} :
                     /\ x.importance > 7
                     /\ Cardinality({p \in UNION {PagesOf(g, d) : d \in DomainsNamed(g, domain)} :
                                        x \in EntitiesOf(g, p)}) = 1}}

getKnowledgeGraphAnalytics(domain) ==
    /\ pc = "idle"
    /\ result' = [kind |-> "analytics", domain |-> domain,
                  overview |-> {[pageCount |-> d.pageCount,
                                 entityCount |-> d.entityCount,
                                 relationshipCount |->
                                    Cardinality({r \in graph.rels : r.type = RelatedTo})] :
                                  d \in DomainsNamed(graph, domain)},
                  contentGaps |-> contentGaps(graph, domain)]
    /\ UNCHANGED <<graph, tx, pc, call, pageNode, entityNodes, log, calls>>

\* MATCH (d)-[:CONTAINS]->(p)-[:CONTAINS]->(e) WHERE e.importance >= $minImportance
\* RETURN DISTINCT ... count(DISTINCT p) ORDER BY importance DESC, pageCount DESC
vizRows(g, domain, minImportance) ==
    LET pages == UNION {PagesOf(g, d) : d \in DomainsNamed(g, domain)}
    IN {[id |-> e.id, label |-> e.text, type |-> e.type,
         importance |-> e.importance, confidence |-> e.confidence,
         pageCount |-> Cardinality({p \in pages : e \in EntitiesOf(g, p)})] :
           e \in {x \in UNION {EntitiesOf(g, p) : p \in pages} :
                    x.importance >= minImportance}}

vizHigher(a, b) ==
    \/ a.importance > b.importance
    \/ a.importance = b.importance /\ a.pageCount > b.pageCount

vizOrderings(rows) ==
    {s \in [1..Cardinality(rows) -> rows] :
        /\ \A i, j \in DOMAIN s : i /= j => s[i] /= s[j]
        /\ \A i, j \in DOMAIN s : i < j => ~vizHigher(s[j], s[i])}

\* The edge query restricted on the source entity only.
vizEdgesFromOnly(g, nodeIds) ==
    {[from |-> ee[1].id, to |-> ee[2].id, type |-> r.type,
      strength |-> r.strength, confidence |-> r.confidence] :
        <<r, ee>> \in {x \in g.rels \X (g.entities \X g.entities) :
                        /\ x[1].from = x[2][1].nid /\ x[1].to = x[2][2].nid
                        /\ x[2][1].id \in nodeIds}}

\* MATCH (e1:Entity)-[r]->(e2:Entity) WHERE e1.id IN $nodeIds AND e2.id IN $nodeIds
vizEdges(g, nodeIds) ==
    {[from |-> ee[1].id, to |-> ee[2].id, type |-> r.type,
      strength |-> r.strength, confidence |-> r.confidence] :
        <<r, ee>> \in {x \in g.rels \X (g.entities \X g.entities) :
                        /\ x[1].from = x[2][1].nid /\ x[1].to = x[2][2].nid
                        /\ x[2][1].id \in nodeIds /\ x[2][2].id \in nodeIds}}

NodeLimits == {1, 50}

ImportanceFloors == {5, 8}

getKnowledgeGraphVisualization(domain, maxNodes, minImportance) ==
    /\ pc = "idle"
    /\ \E s \in vizOrderings(vizRows(graph, domain, minImportance)) :
          LET nodes == Limit(s, maxNodes)
          IN result' = [kind |-> "viz", domain |-> domain, nodes |-> nodes,
                        edges |-> IF nodes /= <<>>
                                  THEN vizEdges(graph, {nodes[i].id : i \in DOMAIN nodes})
                                  ELSE {}]
    /\ UNCHANGED <<graph, tx, pc, call, pageNode, entityNodes, log, calls>>

\* The domain names a caller asks about.
QueryDomains == {extractDomain(UrlLow), extractDomain(UrlWww)}

Reads ==
    \/ \E d \in QueryDomains, n \in PageLimits, k \in SortKeys : generateLLMsTxt(d, n, k)
    \/ \E d \in QueryDomains : getKnowledgeGraphAnalytics(d)
    \/ \E d \in QueryDomains, n \in NodeLimits, m \in ImportanceFloors :
          getKnowledgeGraphVisualization(d, n, m)

storeProcessedContent ==
    \/ \E c \in Contents : Begin(c)
    \/ StepDomain
    \/ StepPage
    \/ StepEntities
    \/ StepRelationships
    \/ StepMetadata
    \/ StepStats
    \/ Commit
    \/ StepThrows
    \/ TxRollback
    \/ TxRollbackThrows

Next == storeProcessedContent \/ Reads

Spec == Init /\ [][Next]_vars

---------------------------------------------------------------------------
(* Properties *)

\* The identity key of an entity: its case-folded, trimmed text.
IdentityKey(text) == toLowerCase(trim(text))

\* The step that commits the current call / the steps of a read operation.
Committing == pc = "commit" /\ pc' = "idle"

Reading == pc = "idle" /\ pc' = "idle"

LoggedUrls == {pageUrlOf(log[i]) : i \in DOMAIN log}

\* The observations of entity key k in committed ingestions: <<call, entry>>.
EntityObs(k) ==
    {ij \in UNION {{<<i, j>> : j \in DOMAIN log[i].entities} : i \in DOMAIN log} :
        IdentityKey(log[ij[1]].entities[ij[2]].text) = k}

ObsAt(ij) == log[ij[1]].entities[ij[2]]

\* C1: every step of an ingestion call other than its successful commit leaves
\* the committed graph as it was, so a call that fails at any step (and ends
\* with a KnowledgeGraphError) leaves the graph identical to the graph before
\* the call.
C1_AllOrNothing ==
    [][(pc \in TxSteps \cup {"rollback"} /\ ~Committing) => graph' = graph]_vars

\* A call whose commit failed, after every statement had written.
C1_Witness ==
    /\ pc = "idle" /\ result.kind = "error" /\ result.step = "commit"
    /\ call.entities /= <<>> /\ call.relationships /= <<>>
    /\ graph = EmptyGraph

\* C2: exactly one Page record per ingested url, none for other urls, and its
\* version is the number of committed ingestions of that url.
C2_OnePagePerUrl ==
    /\ \A p \in graph.pages : p.url \in LoggedUrls
    /\ \A u \in LoggedUrls :
          /\ Cardinality({p \in graph.pages : p.url = u}) = 1
          /\ \A p \in graph.pages :
                p.url = u => p.version = Cardinality({i \in DOMAIN log : pageUrlOf(log[i]) = u})

\* The same url ingested twice, next to another url.
C2_Witness ==
    /\ pc = "idle" /\ Len(log) = 2 /\ pageUrlOf(log[1]) = pageUrlOf(log[2])
    /\ \E p \in graph.pages : p.version = 2

\* C3: at most one Entity record per identity key; observations whose texts
\* differ only in letter case or surrounding whitespace share one record.
C3_OneEntityPerKey ==
    /\ \A e1, e2 \in graph.entities :
          IdentityKey(e1.text) = IdentityKey(e2.text) => e1 = e2
    /\ \A i \in DOMAIN log : \A j \in DOMAIN log[i].entities :
          Cardinality({e \in graph.entities :
                         IdentityKey(e.text) = IdentityKey(log[i].entities[j].text)}) = 1

\* "Ac" and " ac " were both observed and share one record.
C3_Witness ==
    /\ pc = "idle"
    /\ \E a, b \in EntityObs(IdentityKey(TextAc)) :
          ObsAt(a).text = TextAc /\ ObsAt(b).text = TextAcVariant
    /\ \E e \in graph.entities : IdentityKey(e.text) = IdentityKey(TextAc)

InRange(o) == o.importance \in 1..10 /\ o.confidence \in 0..Scale

\* C4: an entity observed in two successive ingestions (once in each, values
\* in range) has importance max(i1, i2) and confidence (c1 + c2) / 2.
C4_MaxAndMean ==
    \A e \in graph.entities :
       LET obs == EntityObs(IdentityKey(e.text))
       IN \A a, b \in obs :
            (obs = {a, b} /\ a[1] < b[1] /\ InRange(ObsAt(a)) /\ InRange(ObsAt(b)))
            => /\ e.importance = Max(ObsAt(a).importance, ObsAt(b).importance)
               /\ 2 * e.confidence = ObsAt(a).confidence + ObsAt(b).confidence

KeysOf(entities) == {IdentityKey(entities[j].text) : j \in DOMAIN entities}

Mentions(g, k) ==
    IF \E e \in g.entities : IdentityKey(e.text) = k
    THEN (CHOOSE e \in g.entities : IdentityKey(e.text) = k).mentionCount
    ELSE 0

VersionOf(g, u) ==
    IF \E p \in g.pages : p.url = u
    THEN (CHOOSE p \in g.pages : p.url = u).version
    ELSE 0

\* C5: every committed call raises the mentionCount of each entity
\* of its list by exactly 1 and the Page version by exactly 1.
C5_ExactlyOnePerCall ==
    [][Committing =>
         /\ \A k \in KeysOf(call.entities) : Mentions(graph', k) = Mentions(graph, k) + 1
         /\ VersionOf(graph', pageUrlOf(call)) = VersionOf(graph, pageUrlOf(call)) + 1]_vars

\* What the upsert loop does instead: a committed call raises the mentionCount
\* of each entity by the number of entries of its list that carry the entity's
\* identity key, leaves the other entities' counts alone, and raises the Page
\* version by exactly 1.
MentionsCountEntries ==
    [][Committing =>
         /\ \A k \in KeysOf(call.entities) \cup {IdentityKey(e.text) : e \in graph.entities} :
               Mentions(graph', k) = Mentions(graph, k)
                  + Cardinality({j \in DOMAIN call.entities :
                                   IdentityKey(call.entities[j].text) = k})
         /\ VersionOf(graph', pageUrlOf(call)) = VersionOf(graph, pageUrlOf(call)) + 1]_vars

\* C6: for every ordered pair of entities and every relationship type there
\* is at most one relationship edge.
C6_OneEdgePerTriple ==
    \A r1, r2 \in graph.rels :
       (r1.from = r2.from /\ r1.to = r2.to /\ r1.type = r2.type) => r1 = r2

\* The same (from, to, type) committed by two different calls.
C6_Witness ==
    /\ pc = "idle" /\ Len(log) = 2 /\ log[1] /= log[2]
    /\ log[1].relationships /= <<>> /\ log[2].relationships /= <<>>
    /\ Cardinality(graph.rels) = 1

RECURSIVE Concat(_)
Concat(ss) == IF ss = <<>> THEN <<>> ELSE Head(ss) \o Concat(Tail(ss))

\* The relationship observations of the committed calls, in order; an entry
\* whose endpoint is not in the call's entity list is not an observation.
RelObsSeq ==
    Concat([i \in DOMAIN log |->
              SelectSeq(log[i].relationships,
                        LAMBDA r : \E a, b \in DOMAIN log[i].entities :
                                      /\ log[i].entities[a].text = r.from
                                      /\ log[i].entities[b].text = r.to)])

RelKey(r) ==
    <<IdentityKey(r.from), IdentityKey(r.to),
      normalizeRelationshipType(OrElse(r.type, RelatedTo))>>

EntityIdAt(g, nid) == (CHOOSE e \in g.entities : e.nid = nid).id

EdgeKey(g, r) == <<EntityIdAt(g, r.from), EntityIdAt(g, r.to), r.type>>

\* First sight sets the value, every repeat averages it with the observed one.
RECURSIVE FoldAvg(_)
FoldAvg(values) ==
    IF Len(values) = 1 THEN values[1]
    ELSE Avg(FoldAvg(SubSeq(values, 1, Len(values) - 1)), values[Len(values)])

\* C7: a relationship edge holds the observed strength and confidence on first
\* sight and (old + observed) / 2 after every repeat, hence stays in [0,1].
C7_AveragedOnRepeat ==
    \A r \in graph.rels :
       LET obs == SelectSeq(RelObsSeq, LAMBDA o : RelKey(o) = EdgeKey(graph, r))
       IN /\ obs /= <<>>
          /\ r.strength = FoldAvg([i \in DOMAIN obs |-> obs[i].strength])
          /\ r.confidence = FoldAvg([i \in DOMAIN obs |-> obs[i].confidence])
          /\ r.strength \in 0..Scale /\ r.confidence \in 0..Scale

SetMax(S) == CHOOSE m \in S : \A n \in S : n <= m

\* The importances with which entity e was observed on page p.
ObservedOn(p, e) ==
    {ObsAt(ij).importance :
        ij \in {x \in EntityObs(IdentityKey(e.text)) : pageUrlOf(log[x[1]]) = p.url}}

C9_DomainCounts ==
    (pc = "idle" /\ result.kind = "receipt" /\ extractDomain(call.url) /= None)
    => LET ds == DomainsNamed(graph, extractDomain(call.url))
       IN /\ Cardinality(ds) = 1
          /\ \A d \in ds :
                /\ d.pageCount = Cardinality(PagesOf(graph, d))
                /\ d.entityCount = Cardinality(EntitiesIn(graph, d))

\* A domain that holds two pages and two entities after the second commit.
C9_Witness ==
    /\ pc = "idle" /\ result.kind = "receipt"
    /\ \E d \in DomainsNamed(graph, extractDomain(call.url)) :
          d.pageCount = 2 /\ d.entityCount = 2

Grows(g, h) ==
    /\ \A n \in g.domains : \E m \in h.domains : m.nid = n.nid /\ m.name = n.name
    /\ \A n \in g.pages : \E m \in h.pages : m.nid = n.nid /\ m.url = n.url
    /\ \A n \in g.entities : \E m \in h.entities : m.nid = n.nid /\ m.id = n.id
    /\ g.dcp \subseteq h.dcp
    /\ \A r \in g.pce : \E q \in h.pce : q.from = r.from /\ q.to = r.to
    /\ \A r \in g.rels : \E q \in h.rels :
          q.from = r.from /\ q.to = r.to /\ q.type = r.type

\* C10: no operation removes a node or an edge of the graph, and the read
\* operations (export, analytics, visualization) leave the graph unchanged.
C10_NothingRemoved ==
    [][Grows(graph, graph') /\ (Reading => graph' = graph)]_vars

\* A read answered from a graph built by two ingestions.
C10_Witness ==
    /\ pc = "idle" /\ result.kind \in {"llms", "analytics", "viz"}
    /\ Cardinality(graph.pages) = 2 /\ graph.rels /= {} /\ Len(log) = 2

---------------------------------------------------------------------------
(* XoptYmiZContentProcessor: entity extraction *)

Found(text, type, importance, confidence, source) ==
    [text |-> text, type |-> type, importance |-> importance,
     confidence |-> confidence, source |-> source]

DefaultMinEntityImportance == 6

\* this.config = { minEntityImportance: config.minEntityImportance || 6, ...config }:
\* the spread puts back every key the caller supplied.
constructorConfig(config) ==
    [k \in DOMAIN config \cup {"minEntityImportance"} |->
        IF k \in DOMAIN config THEN config[k] ELSE DefaultMinEntityImportance]

extractEntitiesWithNLP(analysis) ==
    LET each(list, type, importance, confidence) ==
            [i \in DOMAIN list |->
                Found(list[i], type, importance, confidence, "nlp")]
    IN each(analysis.people, "PERSON", 7, (8 * Scale) \div 10)
       \o each(analysis.organizations, "ORGANIZATION", 7, (8 * Scale) \div 10)
       \o each(analysis.places, "LOCATION", 6, (75 * Scale) \div 100)
       \o each(analysis.topics, "CONCEPT", 6, (7 * Scale) \div 10)

\* \w of a regular expression; positions outside the string are not \w.
WordChar(s, i) ==
    /\ i \in DOMAIN s
    /\ s[i] \in Range(UpperChars) \cup Range(LowerChars) \cup Digits \cup {"_"}

\* \b between s[i - 1] and s[i].
wordBoundary(s, i) == WordChar(s, i - 1) /= WordChar(s, i)

\* Last position of the greedy run of characters of class starting at i
\* (i - 1 when s[i] is not in class).
RECURSIVE runEnd(_, _, _)
runEnd(s, i, class) ==
    IF i \in DOMAIN s /\ s[i] \in class THEN runEnd(s, i + 1, class) ELSE i - 1

\* /\b[A-Za-z0-9._%+-]+@[A-Za-z0-9.-]+\.[A-Z|a-z]{2,}\b/ tried at position i:
\* the last position of the match, 0 when there is none. Both + are greedy,
\* so the match uses the last dot that a top-level part can follow.
emailEndAt(s, i) ==
    LET alnum == Range(UpperChars) \cup Range(LowerChars) \cup Digits
        k == runEnd(s, i, alnum \cup {".", "_", "%", "+", "-"}) + 1
        m == runEnd(s, k + 1, alnum \cup {".", "-"})
        \* the class [A-Z|a-z] of the source holds the bar as well
        tld == Range(UpperChars) \cup Range(LowerChars) \cup {"|"}
        ends(j) == {e \in (j + 2)..runEnd(s, j + 1, tld) :
                        wordBoundary(s, e + 1)}
        dots == {j \in (k + 2)..m : s[j] = "." /\ ends(j) /= {}}
    IN IF wordBoundary(s, i) /\ k > i /\ k \in DOMAIN s /\ s[k] = "@" /\ dots /= {}
       THEN SetMax(ends(SetMax(dots)))
       ELSE 0

\* text.match(emailRegex) with the g flag: the leftmost matches, not overlapping.
RECURSIVE emailMatches(_, _)
emailMatches(s, from) ==
    LET starts == {i \in from..Len(s) : emailEndAt(s, i) /= 0}
    IN IF starts = {} THEN <<>>
       ELSE LET i == CHOOSE a \in starts : \A b \in starts : a <= b
            IN <<SubSeq(s, i, emailEndAt(s, i))>>
               \o emailMatches(s, emailEndAt(s, i) + 1)

startsWithAt(s, i, sub) ==
    i + Len(sub) - 1 <= Len(s) /\ SubSeq(s, i, i + Len(sub) - 1) = sub

\* Length of the scheme matched by https?:\/\/ at position i, 0 when none.
schemeAt(s, i) ==
    IF startsWithAt(s, i, <<"h","t","t","p">> \o SchemeSep) THEN 7
    ELSE IF startsWithAt(s, i, <<"h","t","t","p","s">> \o SchemeSep) THEN 8
    ELSE 0

\* /https?:\/\/[^\s<>"]+/ tried at position i: last position of the match or 0.
urlEndAt(s, i) ==
    LET n == schemeAt(s, i)
        e == runEnd(s, i + n, Range(s) \ {" ", "\t", "\n", "\r", "<", ">", "\""})
    IN IF n /= 0 /\ e >= i + n THEN e ELSE 0

RECURSIVE urlMatches(_, _)
urlMatches(s, from) ==
    LET starts == {i \in from..Len(s) : urlEndAt(s, i) /= 0}
    IN IF starts = {} THEN <<>>
       ELSE LET i == CHOOSE a \in starts : \A b \in starts : a <= b
            IN <<SubSeq(s, i, urlEndAt(s, i))>>
               \o urlMatches(s, urlEndAt(s, i) + 1)

\* url.match(/https?:\/\/([^\/]+)/)?.[1] on a matched url: the characters
\* between the scheme and the next slash, None when there are none.
urlDomain(url) ==
    LET n == schemeAt(url, 1)
        e == runEnd(url, n + 1, Range(url) \ {"/"})
    IN IF e > n THEN SubSeq(url, n + 1, e) ELSE None

techTerms ==
    << <<"A","P","I">>, <<"R","E","S","T">>, <<"G","r","a","p","h","Q","L">>, <<"J","a","v","a","S","c","r","i","p","t">>, <<"P","y","t","h","o","n">>,
       <<"R","e","a","c","t">>, <<"V","u","e">>, <<"A","n","g","u","l","a","r">>, <<"N","o","d","e",".","j","s">>, <<"M","o","n","g","o","D","B">>,
       <<"P","o","s","t","g","r","e","S","Q","L">>, <<"R","e","d","i","s">>, <<"D","o","c","k","e","r">>, <<"K","u","b","e","r","n","e","t","e","s">> >>

extractEntitiesWithPatterns(text) ==
    LET emails == emailMatches(text, 1)
        urls == SelectSeq(urlMatches(text, 1), LAMBDA u : urlDomain(u) /= None)
        terms == SelectSeq(techTerms,
                           LAMBDA t : includes(toLowerCase(text), toLowerCase(t)))
    IN [i \in DOMAIN emails |-> Found(emails[i], "OTHER", 5, Scale, "pattern")]
       \o [i \in DOMAIN urls |->
             Found(urlDomain(urls[i]), "ORGANIZATION", 5, (9 * Scale) \div 10,
                   "pattern")]
       \o [i \in DOMAIN terms |->
             Found(terms[i], "TECHNOLOGY", 6, (8 * Scale) \div 10, "pattern")]

\* The Map key of mergeAndDeduplicateEntities.
entityKey(entity) == trim(toLowerCase(entity.text))

\* A mutation: the later record of a key always replaces the kept one.
mergeKeepLast(map, entity) ==
    LET hit == {i \in DOMAIN map : entityKey(map[i]) = entityKey(entity)}
    IN IF hit = {} THEN Append(map, entity)
       ELSE [map EXCEPT ![CHOOSE i \in hit : TRUE] = entity]

\* One step of entityArrays.forEach over a Map, which keeps the insertion
\* order of its keys: a later record replaces the kept one only with a
\* greater confidence.
mergeOne(map, entity) ==
    LET hit == {i \in DOMAIN map : entityKey(map[i]) = entityKey(entity)}
    IN IF hit = {} THEN Append(map, entity)
       ELSE LET i == CHOOSE i \in hit : TRUE
            IN IF entity.confidence > map[i].confidence
               THEN [map EXCEPT ![i] = entity]
               ELSE map

RECURSIVE mergeInto(_, _)
mergeInto(map, rest) ==
    IF rest = <<>> THEN map
    ELSE mergeInto(mergeOne(map, Head(rest)), Tail(rest))

mergeAndDeduplicateEntities(entityArrays) == mergeInto(<<>>, entityArrays)

extractEntitiesFallback(analysis) == extractEntitiesWithNLP(analysis)

---------------------------------------------------------------------------
(* extractEntities as a state machine: PRIMARY_INFERENCE, LOCAL_FALLBACK, DONE *)

TextPlain == <<"B","o"," ","a","t"," ","A","c">>

TextMail == <<"a","s","k"," ","x","@","a",".","i","o">>

TextLink == <<"s","e","e"," ","h","t","t","p",":","/","/","B",".","i","o","/","p"," ","A","P","I">>

\* What analyzeContentStructure hands over: the lists of the compromise library.
Analysis(people, organizations, places, topics) ==
    [people |-> people, organizations |-> organizations, places |-> places,
     topics |-> topics]

Analyses ==
    { Analysis(<<>>, <<>>, <<>>, <<>>),
      Analysis(<<TextBo>>, <<TextAc>>, <<TextZed>>, <<>>),
      Analysis(<<>>, <<>>, <<>>, <<<<"a","p","i">>>>) }

\* Constructor arguments; the first leaves minEntityImportance to its default.
ProcessorConfigs ==
    { [maxEntities |-> 1],
      [minEntityImportance |-> 5, maxEntities |-> 2],
      [minEntityImportance |-> 7, maxEntities |-> 10] }

\* Outcomes of openai.chat.completions.create: a rejected request, a content
\* that is not JSON, a JSON object without entities, and entity lists (the
\* last with a record that has no text).
AIResponses ==
    { [kind |-> "rejected"],
      [kind |-> "unparseable"],
      [kind |-> "json"],
      [kind |-> "json",
       entities |-> <<Found(TextAc, "ORGANIZATION", 9, (95 * Scale) \div 100, "ai"),
                      Found(TextZed, "CONCEPT", 3, (9 * Scale) \div 10, "ai")>>],
      [kind |-> "json",
       entities |-> <<Found(None, "OTHER", 9, Scale, "ai")>>] }

\* result.entities || []
aiEntitiesOf(response) ==
    IF "entities" \in DOMAIN response THEN response.entities ELSE <<>>

\* The try block of extractEntities throws when the request is rejected, when
\* JSON.parse fails, and when entity.text.toLowerCase() meets a record with
\* no text.
tryThrows(response) ==
    \/ response.kind \in {"rejected", "unparseable"}
    \/ \E i \in DOMAIN aiEntitiesOf(response) : aiEntitiesOf(response)[i].text = None

ApiNoClientEntities ==
    << [text |-> <<"X","o","p","t","Y","m","i","Z">>, type |-> "PRODUCT", importance |-> 10],
       [text |-> <<"A","I"," ","O","p","t","i","m","i","z","a","t","i","o","n">>, type |-> "CONCEPT", importance |-> 9],
       [text |-> <<"K","n","o","w","l","e","d","g","e"," ","G","r","a","p","h">>, type |-> "TECHNOLOGY", importance |-> 8] >>

ApiCatchEntities ==
    << [text |-> <<"X","o","p","t","Y","m","i","Z">>, type |-> "PRODUCT", importance |-> 10],
       [text |-> <<"C","o","n","t","e","n","t"," ","P","r","o","c","e","s","s","i","n","g">>, type |-> "CONCEPT", importance |-> 8],
       [text |-> <<"E","n","t","i","t","y"," ","E","x","t","r","a","c","t","i","o","n">>, type |-> "TECHNOLOGY", importance |-> 9] >>

\* The try block of the endpoint's extractEntities reads result.entities.length
\* before the `||`, so a JSON object without entities throws as well.
apiTryThrows(response) ==
    response.kind \in {"rejected", "unparseable"} \/ "entities" \notin DOMAIN response

StoreIdle ==
    /\ graph = EmptyGraph /\ tx = NoTx /\ pageNode = NoNode
    /\ entityNodes = <<>> /\ log = <<>> /\ calls = 0

AnnotatorInit ==
    /\ StoreIdle
    /\ pc = "idle"
    /\ call = [handler |-> "none"]
    /\ result = NoResult

extractEntities(text, analysis, config) ==
    /\ pc = "idle"
    /\ call' = [handler |-> "engine", text |-> text, analysis |-> analysis,
                config |-> constructorConfig(config), requests |-> 0,
                response |-> [kind |-> "none"]]
    /\ pc' = "PRIMARY_INFERENCE"
    /\ result' = NoResult
    /\ UNCHANGED <<graph, tx, pageNode, entityNodes, log, calls>>

\* The try block: the one request, then the two local methods, the merge and
\* the importance filter.
extractEntitiesTry(response) ==
    /\ pc = "PRIMARY_INFERENCE"
    /\ call.handler = "engine"
    /\ call' = [call EXCEPT !.requests = @ + 1, !.response = response]
    /\ IF tryThrows(response)
       THEN pc' = "LOCAL_FALLBACK" /\ UNCHANGED result
       ELSE /\ pc' = "DONE"
            /\ result' =
                 [kind |-> "entities",
                  entities |->
                    SelectSeq(mergeAndDeduplicateEntities(
                                aiEntitiesOf(response)
                                \o extractEntitiesWithNLP(call.analysis)
                                \o extractEntitiesWithPatterns(call.text)),
                              LAMBDA entity :
                                entity.importance >= call.config.minEntityImportance)]
    /\ UNCHANGED <<graph, tx, pageNode, entityNodes, log, calls>>

\* A mutation: the catch block hands the error on.
extractEntitiesCatchRethrows ==
    /\ pc = "LOCAL_FALLBACK"
    /\ call.handler = "engine"
    /\ result' = [kind |-> "error", name |-> "Error", step |-> "extractEntities"]
    /\ pc' = "DONE"
    /\ UNCHANGED <<graph, tx, call, pageNode, entityNodes, log, calls>>

extractEntitiesCatch ==
    /\ pc = "LOCAL_FALLBACK"
    /\ call.handler = "engine"
    /\ result' = [kind |-> "entities",
                  entities |-> extractEntitiesFallback(call.analysis)]
    /\ pc' = "DONE"
    /\ UNCHANGED <<graph, tx, call, pageNode, entityNodes, log, calls>>

\* The endpoint's extractEntities: without a client it goes to its local list.
apiExtractEntities(openai) ==
    /\ pc = "idle"
    /\ call' = [handler |-> "api", openai |-> openai, requests |-> 0,
                response |-> [kind |-> "none"]]
    /\ pc' = IF openai THEN "PRIMARY_INFERENCE" ELSE "LOCAL_FALLBACK"
    /\ result' = NoResult
    /\ UNCHANGED <<graph, tx, pageNode, entityNodes, log, calls>>

apiExtractEntitiesTry(response) ==
    /\ pc = "PRIMARY_INFERENCE"
    /\ call.handler = "api"
    /\ call' = [call EXCEPT !.requests = @ + 1, !.response = response]
    /\ IF apiTryThrows(response)
       THEN pc' = "LOCAL_FALLBACK" /\ UNCHANGED result
       ELSE /\ pc' = "DONE"
            /\ result' = [kind |-> "entities", entities |-> response.entities]
    /\ UNCHANGED <<graph, tx, pageNode, entityNodes, log, calls>>

apiExtractEntitiesFallback ==
    /\ pc = "LOCAL_FALLBACK"
    /\ call.handler = "api"
    /\ result' = [kind |-> "entities",
                  entities |-> IF call.openai THEN ApiCatchEntities
                               ELSE ApiNoClientEntities]
    /\ pc' = "DONE"
    /\ UNCHANGED <<graph, tx, call, pageNode, entityNodes, log, calls>>

\* The caller takes the list; the processor is ready for the next call.
extractEntitiesReturn ==
    /\ pc = "DONE"
    /\ pc' = "idle"
    /\ UNCHANGED <<graph, tx, call, pageNode, entityNodes, result, log, calls>>

AnnotatorNext ==
    \/ \E text \in {TextPlain, TextMail, TextLink}, analysis \in Analyses, config \in ProcessorConfigs :
         extractEntities(text, analysis, config)
    \/ \E response \in AIResponses : extractEntitiesTry(response)
    \/ extractEntitiesCatch
    \/ \E openai \in BOOLEAN : apiExtractEntities(openai)
    \/ \E response \in AIResponses : apiExtractEntitiesTry(response)
    \/ apiExtractEntitiesFallback
    \/ extractEntitiesReturn

AnnotatorSpec == AnnotatorInit /\ [][AnnotatorNext]_vars

\* Keys of the records of an entity list.
KeysIn(entities) == {entityKey(entities[i]) : i \in DOMAIN entities}

\* C11: extractEntities never returns an entity whose importance is below
\* the configured minimum, whether the primary inference succeeded or the
\* fallback list was returned.
C11_MinImportance ==
    (pc = "DONE" /\ call.handler = "engine") =>
        \A i \in DOMAIN result.entities :
            result.entities[i].importance >= call.config.minEntityImportance

\* What the three methods found for the call (the primary list only when the
\* try block went through).
Candidates ==
    (IF tryThrows(call.response) THEN <<>> ELSE aiEntitiesOf(call.response))
    \o extractEntitiesWithNLP(call.analysis)
    \o extractEntitiesWithPatterns(call.text)

\* C12: extractEntities never returns more than maxEntities entities, and
\* what it leaves out of a capped list is no more important than what it keeps.
C12_MaxEntities ==
    (pc = "DONE" /\ call.handler = "engine") =>
        /\ Len(result.entities) <= call.config.maxEntities
        /\ \A i \in DOMAIN Candidates, j \in DOMAIN result.entities :
             (/\ Candidates[i].importance >= call.config.minEntityImportance
              /\ entityKey(Candidates[i]) \notin KeysIn(result.entities))
             => Candidates[i].importance <= result.entities[j].importance

\* The list the handler of the call returns when the primary inference fails.
LocalFallbackOf(c) ==
    IF c.handler = "engine" THEN extractEntitiesFallback(c.analysis)
    ELSE IF c.openai THEN ApiCatchEntities ELSE ApiNoClientEntities

\* C13: an annotator call leaves PRIMARY_INFERENCE for DONE or for
\* LOCAL_FALLBACK and leaves LOCAL_FALLBACK for DONE; it sends at most one
\* request, and only in PRIMARY_INFERENCE; a rejected request or an
\* unparseable response is never handed to the caller: the call ends with
\* the local fallback list.
C13_OneRequestThenFallback ==
    [][/\ pc = "PRIMARY_INFERENCE" =>
            pc' \in {"DONE", "LOCAL_FALLBACK"} /\ call'.requests = 1
       /\ pc = "LOCAL_FALLBACK" =>
            pc' = "DONE" /\ call'.requests = call.requests
       /\ pc' \in {"PRIMARY_INFERENCE", "LOCAL_FALLBACK", "DONE"} =>
            call'.requests <= 1
       /\ pc' = "DONE" => result'.kind = "entities"
       /\ (pc' = "DONE" /\ call'.response.kind \in {"rejected", "unparseable"}) =>
            result'.entities = LocalFallbackOf(call')
      ]_vars

C13_Witness ==
    /\ pc = "DONE" /\ call.handler = "engine" /\ call.requests = 1
    /\ call.response.kind = "unparseable"
    /\ result.kind = "entities" /\ Len(result.entities) = 3

\* C14: on every call the lexical and the pattern method both run and are
\* merged: a key they found whose records all reach the minimum importance is
\* in the result, also when the primary inference failed.
C14_LocalMethodsAlwaysMerged ==
    (pc = "DONE" /\ call.handler = "engine") =>
        \A k \in KeysIn(extractEntitiesWithNLP(call.analysis)
                        \o extractEntitiesWithPatterns(call.text)) :
            (\A i \in DOMAIN Candidates :
                entityKey(Candidates[i]) = k =>
                    Candidates[i].importance >= call.config.minEntityImportance)
            => k \in KeysIn(result.entities)

---------------------------------------------------------------------------
(* mergeAndDeduplicateEntities on its own *)

MaxArray == 3

\* Lists of records of three texts, two of them with the same key, at three
\* confidences.
EntityArrays ==
    UNION {[1..n -> {Found(text, "CONCEPT", 6, confidence, "nlp") :
                        text \in {TextAc, TextAcVariant, TextBo},
                        confidence \in {Half, (8 * Scale) \div 10, Scale}}] :
             n \in 0..MaxArray}

MergeInit ==
    /\ StoreIdle
    /\ pc = "idle"
    /\ call \in {[handler |-> "merge", entityArrays |-> a] : a \in EntityArrays}
    /\ result = NoResult

mergeCall ==
    /\ pc = "idle"
    /\ call.handler = "merge"
    /\ result' = [kind |-> "entities",
                  entities |-> mergeAndDeduplicateEntities(call.entityArrays)]
    /\ pc' = "DONE"
    /\ UNCHANGED <<graph, tx, call, pageNode, entityNodes, log, calls>>

MergeSpec == MergeInit /\ [][mergeCall]_vars

\* The pairs of key and confidence of a list.
ConfidenceByKey(entities) ==
    {<<entityKey(entities[i]), entities[i].confidence>> : i \in DOMAIN entities}

\* The orders in which the records of a list can arrive.
Reorderings(entities) ==
    {[i \in DOMAIN entities |-> entities[p[i]]] :
        p \in {q \in [DOMAIN entities -> DOMAIN entities] :
                 \A i, j \in DOMAIN entities : q[i] = q[j] => i = j}}

\* C15: mergeAndDeduplicateEntities returns exactly one record for each key
\* (lower-cased, trimmed text) of its input and none for other keys; the
\* confidence of that record is the greatest confidence among the input
\* records of the key; the confidence kept for a key is the same for every
\* order of the input.
C15_OnePerKeyMaxConfidence ==
    pc = "DONE" =>
        /\ KeysIn(result.entities) = KeysIn(call.entityArrays)
        /\ \A k \in KeysIn(call.entityArrays) :
             /\ Cardinality({i \in DOMAIN result.entities :
                               entityKey(result.entities[i]) = k}) = 1
             /\ <<k, SetMax({call.entityArrays[i].confidence :
                               i \in {j \in DOMAIN call.entityArrays :
                                        entityKey(call.entityArrays[j]) = k}})>>
                  \in ConfidenceByKey(result.entities)
        /\ \A other \in Reorderings(call.entityArrays) :
             ConfidenceByKey(mergeAndDeduplicateEntities(other))
               = ConfidenceByKey(result.entities)

\* Three records of one key written in two ways, the greatest confidence
\* neither first nor last.
C15_Witness ==
    /\ pc = "DONE"
    /\ Len(call.entityArrays) = 3 /\ Len(result.entities) = 1
    /\ call.entityArrays[1].text /= call.entityArrays[2].text
    /\ call.entityArrays[2].confidence > call.entityArrays[1].confidence
    /\ call.entityArrays[2].confidence > call.entityArrays[3].confidence
    /\ result.entities[1].confidence = call.entityArrays[2].confidence

---------------------------------------------------------------------------
(* Relationship inference: findRelationships and analyzeEntityRelationship *)

\* Exact fractions for the sums of 1 / (distance + 1).
RECURSIVE GCD(_, _)
GCD(a, b) == IF b = 0 THEN a ELSE GCD(b, a % b)

Ratio(n, d) == LET g == GCD(n, d) IN [num |-> n \div g, den |-> d \div g]

RAdd(a, b) == Ratio(a.num * b.den + b.num * a.den, a.den * b.den)

RMul(a, b) == Ratio(a.num * b.num, a.den * b.den)

RLess(a, b) == a.num * b.den < b.num * a.den

\* Math.min
RMin(a, b) == IF RLess(b, a) THEN b ELSE a

Abs(n) == IF n < 0 THEN 0 - n ELSE n

\* A set of integers as the sequence of its elements in increasing order.
RECURSIVE Ascending(_)
Ascending(S) ==
    IF S = {} THEN <<>>
    ELSE LET least == CHOOSE a \in S : \A b \in S : a <= b
         IN <<least>> \o Ascending(S \ {least})

\* Every index (from 0) at which the lower-cased entity text starts in the
\* lower-cased text; the search goes on at index + 1, so occurrences overlap.
findEntityMentions(entity, text) ==
    LET searchText == toLowerCase(text)
        entityText == toLowerCase(entity.text)
    IN Ascending({i - 1 : i \in {j \in 1..(Len(searchText) - Len(entityText) + 1) :
                    SubSeq(searchText, j, j + Len(entityText) - 1) = entityText}})

ProximityWindow == 100

\* A mutation: only the mentions outside the window count.
proximityTermOutsideWindow(distance) ==
    IF distance >= ProximityWindow THEN Ratio(1, distance + 1) ELSE Ratio(0, 1)

\* if (distance < 100) proximityScore += 1 / (distance + 1)
proximityTerm(distance) ==
    IF distance < ProximityWindow THEN Ratio(1, distance + 1) ELSE Ratio(0, 1)

RECURSIVE sumTerms(_)
sumTerms(pairs) ==
    IF pairs = {} THEN Ratio(0, 1)
    ELSE LET p == CHOOSE q \in pairs : TRUE
         IN RAdd(proximityTerm(Abs(p[3] - p[4])), sumTerms(pairs \ {p}))

\* The two nested forEach loops over the mention positions.
proximityScore(entity1Mentions, entity2Mentions) ==
    sumTerms({<<i, j, entity1Mentions[i], entity2Mentions[j]>> :
                i \in DOMAIN entity1Mentions, j \in DOMAIN entity2Mentions})

relationshipTypeOf(type1, type2) ==
    IF type1 = "PERSON" /\ type2 = "ORGANIZATION" THEN "WORKS_FOR"
    ELSE IF type1 = "ORGANIZATION" /\ type2 = "LOCATION" THEN "LOCATED_IN"
    ELSE IF type1 = "PERSON" /\ type2 = "PERSON" THEN "ASSOCIATED_WITH"
    ELSE IF type1 = "CONCEPT" /\ type2 = "TECHNOLOGY" THEN "IMPLEMENTS"
    ELSE "RELATED_TO"

\* A mutation: the score itself, not a tenth of it.
strengthUndivided(score) == RMin(score, Ratio(1, 1))

\* Math.min(proximityScore / 10, 1.0)
strengthOf(score) == RMin(RMul(score, Ratio(1, 10)), Ratio(1, 1))

pairStrength(entity1, entity2, text) ==
    strengthOf(proximityScore(findEntityMentions(entity1, text),
                              findEntityMentions(entity2, text)))

Null == [type |-> "null"]

analyzeEntityRelationship(entity1, entity2, text) ==
    LET strength == pairStrength(entity1, entity2, text)
    IN IF RLess(Ratio(1, 10), strength)
       THEN [from |-> entity1.text, to |-> entity2.text,
             type |-> relationshipTypeOf(entity1.type, entity2.type),
             strength |-> strength,
             confidence |->
               RMin(RMul(RMul(Ratio(entity1.confidence, Scale),
                              Ratio(entity2.confidence, Scale)), strength),
                    Ratio(1, 1))]
       ELSE Null

\* relationships.sort((a, b) => b.strength - a.strength): stable, strongest first.
RECURSIVE sortByStrength(_)
sortByStrength(rels) ==
    IF rels = <<>> THEN <<>>
    ELSE LET rest == sortByStrength(Tail(rels))
             before == SelectSeq(rest, LAMBDA r : RLess(Head(rels).strength, r.strength))
             after == SelectSeq(rest, LAMBDA r : ~RLess(Head(rels).strength, r.strength))
         IN before \o <<Head(rels)>> \o after

\* The pairs (i, j), i < j, in the order of the two for loops.
RECURSIVE pairsFrom(_, _, _)
pairsFrom(i, j, n) ==
    IF i >= n THEN <<>>
    ELSE IF j > n THEN pairsFrom(i + 1, i + 2, n)
    ELSE <<<<i, j>>>> \o pairsFrom(i, j + 1, n)

findRelationships(entities, text) ==
    LET analyzed == [k \in DOMAIN pairsFrom(1, 2, Len(entities)) |->
                       analyzeEntityRelationship(
                           entities[pairsFrom(1, 2, Len(entities))[k][1]],
                           entities[pairsFrom(1, 2, Len(entities))[k][2]], text)]
    IN sortByStrength(
         SelectSeq(analyzed,
                   LAMBDA r : r /= Null /\ RLess(Ratio(3, 10), r.strength)))

---------------------------------------------------------------------------
(* Inputs and calls of the relationship inference *)

ScenarioText == <<"A","l","i","c","e"," ","w","o","r","k","s"," ","a","t"," ","A","c","m","e","."," ","A","c","m","e"," ","b","u","i","l","d","s"," ","w","i","d","g","e","t","s",".">>

TextAlice == <<"A","l","i","c","e">>

TextAcme == <<"A","c","m","e">>

\* Three times "BoAc", g and h blanks apart: the mentions of Bo and of Ac are
\* 2, g + 2, g + 6, h + 2, h + 6, g + h + 6 and g + h + 10 characters apart.
Layout(g, h) ==
    TextBo \o TextAc \o [i \in 1..g |-> " "] \o TextBo \o TextAc
    \o [i \in 1..h |-> " "] \o TextBo \o TextAc

\* Gaps on both sides of the window: 97 puts two mentions 99 apart, 98 puts
\* them 100 apart.
Gaps == {0, 5, 97, 98}

TypePairs ==
    { <<"PERSON", "ORGANIZATION">>, <<"ORGANIZATION", "LOCATION">>,
      <<"PERSON", "PERSON">>, <<"CONCEPT", "TECHNOLOGY">>,
      <<"TECHNOLOGY", "CONCEPT">> }

Retained(text, type) == Found(text, type, 7, (8 * Scale) \div 10, "nlp")

ScenarioCall ==
    [handler |-> "relations",
     entities |-> <<Retained(TextAlice, "PERSON"), Retained(TextAcme, "ORGANIZATION")>>,
     text |-> ScenarioText]

RelationCalls ==
    {[handler |-> "relations",
      entities |-> <<Retained(TextBo, t[1]), Retained(TextAc, t[2])>>,
      text |-> Layout(g, h)] : g \in Gaps, h \in Gaps, t \in TypePairs}
    \cup
    { ScenarioCall,
      [handler |-> "relations",
       entities |-> <<Retained(TextAc, "ORGANIZATION"), Retained(TextAcme, "ORGANIZATION")>>,
       text |-> <<"A","c","m","e"," ","A","c","m","e">>],
      [handler |-> "relations",
       entities |-> <<Retained(<<"A","c","m">>, "ORGANIZATION"), Retained(TextAcme, "ORGANIZATION"),
                      Retained(TextAc, "ORGANIZATION")>>,
       text |-> <<"A","c","m","e"," ","A","c","m","e"," ","A","c","m","e"," ","A","c">>] }

RelationInit ==
    /\ StoreIdle
    /\ pc = "idle"
    /\ call \in RelationCalls
    /\ result = NoResult

findRelationshipsCall ==
    /\ pc = "idle"
    /\ call.handler = "relations"
    /\ result' = [kind |-> "relationships",
                  relationships |-> findRelationships(call.entities, call.text)]
    /\ pc' = "DONE"
    /\ UNCHANGED <<graph, tx, call, pageNode, entityNodes, log, calls>>

RelationSpec == RelationInit /\ [][findRelationshipsCall]_vars

\* C16: findRelationships returns a relationship for a pair of entities if and
\* only if the strength min(proximityScore / 10, 1.0) of the pair is greater
\* than 0.1.
C16_RecordedIffAboveTenth ==
    pc = "DONE" =>
        \A i, j \in DOMAIN call.entities :
            i < j =>
                (RLess(Ratio(1, 10),
                       pairStrength(call.entities[i], call.entities[j], call.text))
                 <=> \E k \in DOMAIN result.relationships :
                        /\ result.relationships[k].from = call.entities[i].text
                        /\ result.relationships[k].to = call.entities[j].text)

\* C17 as stated: for "Alice works at Acme. Acme builds widgets." with Alice
\* (PERSON) and Acme (ORGANIZATION), the inference yields a WORKS_FOR
\* relationship from Alice to Acme of strength greater than 0.1.
C17_ScenarioWorksFor ==
    (pc = "DONE" /\ call = ScenarioCall) =>
        \E k \in DOMAIN result.relationships :
            /\ result.relationships[k].from = TextAlice
            /\ result.relationships[k].to = TextAcme
            /\ result.relationships[k].type = "WORKS_FOR"
            /\ RLess(Ratio(1, 10), result.relationships[k].strength)

\* C17: for "Alice works at Acme. Acme builds widgets." with Alice (PERSON)
\* and Acme (ORGANIZATION), Alice is mentioned at 0 and Acme at 15 and 21; the
\* type of the pair is WORKS_FOR, its strength is (1/16 + 1/22) / 10 = 19/1760,
\* which is not greater than 0.1, and no relationship is yielded.
C17_ScenarioNoRelationship ==
    (pc = "DONE" /\ call = ScenarioCall) =>
        /\ findEntityMentions(call.entities[1], call.text) = <<0>>
        /\ findEntityMentions(call.entities[2], call.text) = <<15, 21>>
        /\ relationshipTypeOf(call.entities[1].type, call.entities[2].type) = "WORKS_FOR"
        /\ pairStrength(call.entities[1], call.entities[2], call.text) = Ratio(19, 1760)
        /\ analyzeEntityRelationship(call.entities[1], call.entities[2], call.text) = Null
        /\ result.relationships = <<>>

C17_Witness ==
    /\ pc = "DONE" /\ call.text = ScenarioText
    /\ Len(call.entities) = 2 /\ call.entities[1].type = "PERSON"
    /\ result.kind = "relationships"

\* Every distance between a mention of the first and a mention of the second
\* entity is in text `near` at most what it is in text `far`, mention by mention.
Closer(entity1, entity2, near, far) ==
    LET n1 == findEntityMentions(entity1, near)
        n2 == findEntityMentions(entity2, near)
        f1 == findEntityMentions(entity1, far)
        f2 == findEntityMentions(entity2, far)
    IN /\ Len(n1) = Len(f1) /\ Len(n2) = Len(f2)
       /\ \A i \in DOMAIN n1, j \in DOMAIN n2 :
            Abs(n1[i] - n2[j]) <= Abs(f1[i] - f2[j])

\* C18: with the numbers of mentions fixed, a text in which every distance
\* between a mention of the first and a mention of the second entity is
\* smaller or equal gives a strength that is not smaller, so a pair that
\* analyzeEntityRelationship records stays recorded; distances on the two
\* sides of the 100-character window included.
C18_CloserNeverWeaker ==
    pc = "DONE" =>
        \A other \in RelationCalls :
            (/\ other.entities = call.entities
             /\ Closer(call.entities[1], call.entities[2], other.text, call.text))
            => /\ ~RLess(pairStrength(call.entities[1], call.entities[2], other.text),
                         pairStrength(call.entities[1], call.entities[2], call.text))
               /\ analyzeEntityRelationship(call.entities[1], call.entities[2],
                                            call.text) /= Null
                  => analyzeEntityRelationship(call.entities[1], call.entities[2],
                                               other.text) /= Null

\* A pair 100 characters apart on one side is analysed, and the text with that
\* gap one character shorter gives a strictly greater strength.
C18_Witness ==
    /\ pc = "DONE" /\ call.handler = "relations"
    /\ call.text = Layout(98, 98)
    /\ Closer(call.entities[1], call.entities[2], Layout(97, 98), call.text)
    /\ RLess(pairStrength(call.entities[1], call.entities[2], call.text),
             pairStrength(call.entities[1], call.entities[2], Layout(97, 98)))
    /\ analyzeEntityRelationship(call.entities[1], call.entities[2], call.text) = Null
    /\ analyzeEntityRelationship(call.entities[1], call.entities[2], Layout(97, 98)) /= Null

---------------------------------------------------------------------------
(* Export of a domain that has no pages *)

\* The pages stored under the domains of a name.
PagesNamed(g, domain) == UNION {PagesOf(g, d) : d \in DomainsNamed(g, domain)}

\* C19: generateLLMsTxt on a domain with zero pages does not fail: it returns
\* a document for that domain with no page sections.
C19_EmptyDomainPlaceholder ==
    [][\A d \in QueryDomains, n \in PageLimits, k \in SortKeys :
          (generateLLMsTxt(d, n, k) /\ PagesNamed(graph, d) = {})
          => /\ result'.kind = "llms"
             /\ result'.domain = d
             /\ result'.pages = <<>>
      ]_vars

---------------------------------------------------------------------------
(* extractCleanContent: the input dispatch of the content processor *)

\* JavaScript truthiness of an optional string: undefined and '' are falsy.
Truthy(s) == s /= None /\ s /= <<>>

HtmlDoc == <<"<","p",">","B","o"," ","a","t"," ","A","c","<","/","p",">">>

SourceInputs ==
    {[url |-> u, html |-> h, text |-> t, title |-> ti] :
        u \in {None, <<>>, UrlLow},
        h \in {None, <<>>, HtmlDoc},
        t \in {None, <<>>, TextPlain, TextMail},
        ti \in {None, TitleDoc}}

\* What fetch answers: a network failure, a status that is not ok, a document.
FetchOutcomes ==
    {[ok |-> FALSE, html |-> None, failed |-> TRUE],
     [ok |-> FALSE, html |-> None, failed |-> FALSE],
     [ok |-> TRUE, html |-> HtmlDoc, failed |-> FALSE]}

\* What Readability.parse answers for a document: null or an article.
Articles == {None, TextPlain}

Whitespace == {" ", "\t", "\n", "\r"}

\* .replace(/\s+/g, ' '): every run of whitespace becomes one blank.
RECURSIVE collapseWhitespace(_)
collapseWhitespace(s) ==
    IF s = <<>> THEN <<>>
    ELSE IF Head(s) \in Whitespace
         THEN <<" ">> \o collapseWhitespace(
                  SubSeq(s, runEnd(s, 1, Whitespace) + 1, Len(s)))
         ELSE <<Head(s)>> \o collapseWhitespace(Tail(s))

preprocessText(text) ==
    trim(SelectSeq(collapseWhitespace(text),
                   LAMBDA ch : \/ WordChar(<<ch>>, 1)
                               \/ ch \in Whitespace \cup {"-", ".", ",", "!", "?", ";", ":"}))

processRawText(text, title) ==
    [kind |-> "content", title |-> title, text |-> text,
     cleaned |-> preprocessText(text)]

Thrown(message) == [kind |-> "error", name |-> "Error", message |-> message]

extractFromHTML(article) ==
    IF article = None THEN Thrown("HTML extraction failed")
    ELSE [kind |-> "content", title |-> Untitled, text |-> article,
          cleaned |-> preprocessText(article)]

extractFromURL(fetched, article) ==
    IF fetched.failed \/ ~fetched.ok THEN Thrown("Failed to fetch URL")
    ELSE LET content == extractFromHTML(article)
         IN IF content.kind = "error" THEN Thrown("Failed to fetch URL") ELSE content

ExtractorInit ==
    /\ StoreIdle
    /\ pc = "idle"
    /\ call \in {[handler |-> "extract", input |-> i] : i \in SourceInputs}
    /\ result = NoResult

extractCleanContent(fetched, article) ==
    /\ pc = "idle"
    /\ call.handler = "extract"
    /\ result' =
         IF Truthy(call.input.url) THEN extractFromURL(fetched, article)
         ELSE IF Truthy(call.input.html) THEN extractFromHTML(article)
         ELSE IF Truthy(call.input.text)
              THEN processRawText(call.input.text, OrElse(call.input.title, Untitled))
              ELSE Thrown("Invalid input: must provide url, html, or text")
    /\ pc' = "DONE"
    /\ UNCHANGED <<graph, tx, call, pageNode, entityNodes, log, calls>>

ExtractorNext ==
    \E fetched \in FetchOutcomes, article \in Articles :
        extractCleanContent(fetched, article)

ExtractorSpec == ExtractorInit /\ [][ExtractorNext]_vars

\* C20: the extractor fails with the invalid-input error if and only if the
\* input supplies none of url, html and text; an input whose only field is an
\* empty text is accepted, with the empty text as its content.
C20_InvalidIffNoSource ==
    pc = "DONE" =>
        /\ (result.kind = "error"
            /\ result.message = "Invalid input: must provide url, html, or text")
           <=> (call.input.url = None /\ call.input.html = None
                /\ call.input.text = None)
        /\ (call.input = [url |-> None, html |-> None, text |-> <<>>, title |-> None])
           => (result.kind = "content" /\ result.text = <<>>)

---------------------------------------------------------------------------
(* getKnowledgeGraphVisualization: shape of the returned node and edge lists *)

---------------------------------------------------------------------------
(* Containment edges written by one ingestion *)

\* C27: an ingestion creates or updates containment edges only from the Page
\* matched by the url of that call; no other Page gains or changes a
\* containment edge, also when two Pages with different urls carry the same
\* page id.
C27_ContainmentOnlyFromOwnPage ==
    [][(tx /= NoTx /\ tx' /= NoTx) =>
          \A r \in tx'.pce \ tx.pce :
             \E p \in tx'.pages : p.nid = r.from /\ p.url = pageUrlOf(call)]_vars

---------------------------------------------------------------------------
(* The receipt of storeProcessedContent *)

\* The Entity records the committed call created or updated.
EntitiesTouched ==
    {e \in graph.entities :
        \E i \in DOMAIN call.entities : e.id = generateId(call.entities[i].text)}

\* The relationship edges the committed call created or updated: one per
\* (source, target, type) of a relationship whose two endpoints were found.
RelationshipsTouched ==
    {<<entityNodes[r.from].id, entityNodes[r.to].id,
       normalizeRelationshipType(OrElse(r.type, RelatedTo))>> :
        r \in {call.relationships[i] : i \in
                 {j \in DOMAIN call.relationships :
                     /\ call.relationships[j].from \in DOMAIN entityNodes
                     /\ call.relationships[j].to \in DOMAIN entityNodes}}}

\* C28: in a success receipt entitiesStored is the number of distinct Entity
\* records the call created or updated and relationshipsStored the number of
\* relationship edges it created or updated, also when relationships were
\* skipped for a missing endpoint.
C28_ReceiptCounts ==
    (pc = "idle" /\ result.kind = "receipt") =>
       /\ result.entitiesStored = Cardinality(EntitiesTouched)
       /\ result.relationshipsStored = Cardinality(RelationshipsTouched)

---------------------------------------------------------------------------
(* The ways a storeProcessedContent call ends *)

\* The step that returns from storeProcessedContent or throws out of it.
Finishing == pc \in TxSteps \cup {"rollback"} /\ pc' = "idle"

\* C29: a call that began a transaction ends in exactly one of two ways:
\* committed with a success receipt, or not committed with a
\* KnowledgeGraphError; a receipt is never returned without the commit, and on
\* every path (success, failed step, failed commit, failed rollback) the
\* session is closed, leaving no open transaction.
C29_CommitOrRollback ==
    [][Finishing =>
          /\ \/ /\ pc = "commit" /\ graph' = tx
                /\ result'.kind = "receipt" /\ result'.success
             \/ /\ pc = "rollback" /\ graph' = graph
                /\ result'.kind = "error" /\ result'.name = "KnowledgeGraphError"
          /\ tx' = NoTx]_vars

\* A call with entities whose rollback failed: nothing is committed, the
\* error is a KnowledgeGraphError and no transaction is left open.
C29_Witness ==
    /\ pc = "idle" /\ result.kind = "error" /\ result.step = "rollback"
    /\ tx = NoTx /\ graph = EmptyGraph /\ call.entities /= <<>>

---------------------------------------------------------------------------
(* XoptYmiZPipeline.processAndStore: process, store, export *)

\* md5 of the text as given (no case folding, no trimming).
generateContentId(input) == <<"#">> \o input

\* The six statements of storeProcessedContent applied in order to graph g.
storeGraph(g, c) ==
    LET domain == extractDomain(c.url)
        g1 == IF domain /= None THEN createDomainNode(g, domain) ELSE g
        page == createPageNode(g1, c)
        nodes == createEntityNodes(page.graph, c.entities, page.pageNode.id)
        g4 == createEntityRelationships(nodes.graph, c.relationships, nodes.entityNodes)
        g5 == storeSemanticMetadata(g4, c.semanticData, page.pageNode.id)
    IN [graph |-> IF domain /= None THEN updateDomainStatistics(g5, domain) ELSE g5,
        pageNode |-> page.pageNode]

\* Inputs of processAndStore: two addresses and a raw text.
PipelineInputs ==
    { [url |-> UrlLow, text |-> None], [url |-> UrlWww, text |-> None],
      [url |-> None, text |-> TextAc] }

\* What processContent can return for an input: the id and url come from the
\* input, the rest from extraction and annotation.
processContentResults(input) ==
    { [id |-> generateContentId(OrElse(input.url, TitleDoc)), url |-> input.url,
       title |-> TitleDoc, entities |-> l.entities,
       relationships |-> l.relationships, semanticData |-> l.semanticData] :
        l \in Payloads }

PipelineError(cause) ==
    [kind |-> "error", name |-> "XoptYmiZPipelineError", cause |-> cause]

\* One entry per stage the current call has completed, with the committed
\* graph at that moment.
StageDone(stage, ok, g) == [stage |-> stage, ok |-> ok, graph |-> g]

PipelineInit ==
    /\ graph = EmptyGraph
    /\ tx = NoTx
    /\ pc = "idle"
    /\ call = [url |-> None, text |-> None]
    /\ pageNode = NoNode
    /\ entityNodes = <<>>
    /\ result = NoResult
    /\ log = <<>>
    /\ calls = 0

processAndStore(input) ==
    /\ pc = "idle"
    /\ calls < MaxCalls
    /\ calls' = calls + 1
    /\ call' = input
    /\ result' = NoResult
    /\ log' = <<StageDone("start", TRUE, graph)>>
    /\ pc' = "process"
    /\ UNCHANGED <<graph, tx, pageNode, entityNodes>>

\* Step 1: processedContent = await contentProcessor.processContent(input)
processContentReturns ==
    /\ pc = "process"
    /\ \E c \in processContentResults(call) : call' = c
    /\ log' = Append(log, StageDone("process", TRUE, graph))
    /\ pc' = "store"
    /\ UNCHANGED <<graph, tx, pageNode, entityNodes, result, calls>>

\* The store reached although content processing failed.
processContentThrowsThenStores ==
    /\ pc = "process"
    /\ \E c \in processContentResults(call) : call' = c
    /\ log' = Append(log, StageDone("process", FALSE, graph))
    /\ pc' = "store"
    /\ UNCHANGED <<graph, tx, pageNode, entityNodes, result, calls>>

\* processContent throws XoptYmiZProcessingError (fetch, extraction or
\* invalid input); the catch block throws XoptYmiZPipelineError.
processContentThrows ==
    /\ pc = "process"
    /\ log' = Append(log, StageDone("process", FALSE, graph))
    /\ result' = PipelineError("XoptYmiZProcessingError")
    /\ pc' = "idle"
    /\ UNCHANGED <<graph, tx, call, pageNode, entityNodes, calls>>

\* Step 2: storeResult = await knowledgeGraph.storeProcessedContent(...)
\* returns after its transaction committed.
storeReturns ==
    /\ pc = "store"
    /\ LET r == storeGraph(graph, call)
       IN /\ graph' = r.graph
          /\ result' = [kind |-> "receipt", success |-> TRUE, pageId |-> r.pageNode.id,
                        entitiesStored |-> Len(call.entities),
                        relationshipsStored |-> Len(call.relationships)]
          /\ log' = Append(log, StageDone("store", TRUE, r.graph))
    /\ pc' = "export"
    /\ UNCHANGED <<tx, call, pageNode, entityNodes, calls>>

\* storeProcessedContent rolls back and throws KnowledgeGraphError.
storeThrows ==
    /\ pc = "store"
    /\ log' = Append(log, StageDone("store", FALSE, graph))
    /\ result' = PipelineError("KnowledgeGraphError")
    /\ pc' = "idle"
    /\ UNCHANGED <<graph, tx, call, pageNode, entityNodes, calls>>

\* Step 3: if (domain) llmsResult = await generateLLMsTxt(domain); the export
\* throws when the domain has no page with an entity.
exportReturns ==
    /\ pc = "export"
    /\ LET domain == extractDomain(call.url)
           failed == domain /= None /\ llmsRows(graph, domain) = {}
       IN /\ result' = IF failed THEN PipelineError("KnowledgeGraphError")
                       ELSE [kind |-> "pipeline", success |-> TRUE,
                             storeResult |-> result,
                             llmsResult |-> IF domain = None THEN None ELSE domain]
          /\ log' = Append(log, StageDone("export", ~failed, graph))
    /\ pc' = "idle"
    /\ UNCHANGED <<graph, tx, call, pageNode, entityNodes, calls>>

\* The export query fails for another reason (driver or database error).
exportThrows ==
    /\ pc = "export"
    /\ extractDomain(call.url) /= None
    /\ log' = Append(log, StageDone("export", FALSE, graph))
    /\ result' = PipelineError("KnowledgeGraphError")
    /\ pc' = "idle"
    /\ UNCHANGED <<graph, tx, call, pageNode, entityNodes, calls>>

PipelineNext ==
    \/ \E input \in PipelineInputs : processAndStore(input)
    \/ processContentReturns
    \/ processContentThrows
    \/ storeReturns
    \/ storeThrows
    \/ exportReturns
    \/ exportThrows

PipelineSpec == PipelineInit /\ [][PipelineNext]_vars

Stages == <<"start", "process", "store", "export">>

\* C25: processAndStore runs its stages strictly in the order process, store,
\* export; the store is invoked only after content processing succeeded, so a
\* failed fetch, extraction or invalid input writes nothing to the graph, and
\* the export is invoked only after the store committed.
C25_StagesInOrder ==
    /\ Len(log) <= Len(Stages)
    /\ \A i \in DOMAIN log : log[i].stage = Stages[i]
    /\ \A i \in DOMAIN log : i < Len(log) => log[i].ok
    /\ \A i \in DOMAIN log :
          /\ log[i].stage = "process" => log[i].graph = log[1].graph
          /\ log[i].stage = "store" =>
                log[i].graph = IF log[i].ok THEN storeGraph(log[1].graph, call).graph
                               ELSE log[1].graph
          /\ log[i].stage = "export" => log[i].graph = log[3].graph
    /\ graph = IF log = <<>> THEN EmptyGraph ELSE log[Len(log)].graph

\* A second call that failed in content processing, after a first call that
\* stored a page: the graph is the one the first call left.
C25_Witness ==
    /\ pc = "idle" /\ calls = 2 /\ Len(log) = 2 /\ ~log[2].ok
    /\ graph.pages /= {} /\ graph = log[1].graph

\* C26: whenever processAndStore reports failure, no graph mutation of that
\* call has been committed, also when the failure arises in the export step
\* that follows the store (a page ingested with zero entities).
C26_FailureLeavesGraph ==
    (pc = "idle" /\ result.kind = "error") => graph = log[1].graph

---------------------------------------------------------------------------
(* Batch ingestion: XoptYmiZPipeline.processBatch and the batch endpoint *)

MaxUrls == 3

DefaultBatchSize == 5

DefaultDelayMs == 1000

\* if (urls.length > 5) return res.status(400)
EndpointLimit == 5

BatchSizes == {1, 2, DefaultBatchSize}

DelaysMs == {0, DefaultDelayMs}

\* One list longer than a default group and than the endpoint's limit.
LongList == [k \in 1..(EndpointLimit + 1) |-> IF k % 2 = 1 THEN UrlLow ELSE UrlWww]

UrlLists == UNION {[1..n -> {UrlLow, UrlWww}] : n \in 0..MaxUrls} \cup {LongList}

\* The locals of a running batch call: loop offset i, the indexes of the
\* calls in flight, what became of each url's processing, the results array
\* and the number of inter-batch delays that have elapsed.
Frame(handler, urls, batchSize, delayMs) ==
    [handler |-> handler, urls |-> urls, batchSize |-> batchSize,
     delayMs |-> delayMs, i |-> 0, inflight |-> {},
     outcome |-> [k \in 1..Len(urls) |-> "none"], results |-> <<>>, delays |-> 0]

BatchInit ==
    /\ StoreIdle
    /\ pc = "idle"
    /\ call = Frame("none", <<>>, DefaultBatchSize, DefaultDelayMs)
    /\ result = NoResult

\* const { batchSize = 5, delayMs = 1000 } = options; const results = []
processBatch(urls, batchSize, delayMs) ==
    /\ pc = "idle"
    /\ call' = Frame("processBatch", urls, batchSize, delayMs)
    /\ result' = NoResult
    /\ pc' = "loop"
    /\ UNCHANGED <<graph, tx, pageNode, entityNodes, log, calls>>

Group(c) ==
    {k \in 1..Len(c.urls) : c.i < k /\ k <= c.i + c.batchSize}

\* batch = urls.slice(i, i + batchSize); batch.map(async url => ...): every
\* call of the group starts before Promise.all is awaited.
startGroup ==
    /\ pc = "loop"
    /\ call.i < Len(call.urls)
    /\ call' = [call EXCEPT !.inflight = @ \cup Group(call)]
    /\ pc' = "await"
    /\ UNCHANGED <<graph, tx, pageNode, entityNodes, result, log, calls>>

\* One call in flight settles.  processAndStore resolves or throws; the
\* endpoint's request is answered with the processing result (200), with the
\* JSON error body of a failed processing (500), or is not answered.
settle(k, outcome) ==
    /\ pc = "await"
    /\ k \in call.inflight
    /\ outcome = "unreachable" => call.handler = "endpoint"
    /\ call' = [call EXCEPT !.inflight = @ \ {k}, !.outcome[k] = outcome]
    /\ UNCHANGED <<graph, tx, pc, pageNode, entityNodes, result, log, calls>>

\* try { await processAndStore({url}); return {url, success: true, ...} }
\* catch { return {url, success: false, ...} }
batchEntry(c, k) == [url |-> c.urls[k], success |-> c.outcome[k] = "ok"]

\* status: result.status === 'fulfilled' ? 'success' : 'error'
endpointEntry(c, k) == [url |-> c.urls[k], success |-> c.outcome[k] /= "unreachable"]

\* The entries of the urls from + 1 .. to, in the order of the list.
Entries(c, from, to) ==
    [j \in 1..(to - from) |->
        IF c.handler = "endpoint" THEN endpointEntry(c, from + j)
        ELSE batchEntry(c, from + j)]


EndOf(c) == IF c.i + c.batchSize < Len(c.urls) THEN c.i + c.batchSize ELSE Len(c.urls)

\* The group awaited with Promise.race: the loop goes on when one call settled.
groupSettledOnFirst ==
    /\ pc = "await"
    /\ call.handler = "processBatch"
    /\ call.inflight /= Group(call)
    /\ LET delay == call.i + call.batchSize < Len(call.urls) /\ call.delayMs > 0
           pushed == call.results \o Entries(call, call.i, EndOf(call))
       IN /\ call' = [call EXCEPT !.results = pushed,
                                  !.i = IF delay THEN @ ELSE @ + call.batchSize]
          /\ pc' = IF delay THEN "delay" ELSE "loop"
    /\ UNCHANGED <<graph, tx, pageNode, entityNodes, result, log, calls>>

\* batchResults = await Promise.all(batchPromises); results.push(...);
\* if (i + batchSize < urls.length && delayMs > 0) await the delay
groupSettled ==
    /\ pc = "await"
    /\ call.handler = "processBatch"
    /\ call.inflight = {}
    /\ LET delay == call.i + call.batchSize < Len(call.urls) /\ call.delayMs > 0
           pushed == call.results \o Entries(call, call.i, EndOf(call))
       IN /\ call' = [call EXCEPT !.results = pushed,
                                  !.i = IF delay THEN @ ELSE @ + call.batchSize]
          /\ pc' = IF delay THEN "delay" ELSE "loop"
    /\ UNCHANGED <<graph, tx, pageNode, entityNodes, result, log, calls>>

\* setTimeout(resolve, delayMs) fires; i += batchSize
delayElapsed ==
    /\ pc = "delay"
    /\ call' = [call EXCEPT !.delays = @ + 1, !.i = @ + call.batchSize]
    /\ pc' = "loop"
    /\ UNCHANGED <<graph, tx, pageNode, entityNodes, result, log, calls>>

Successes(results) == Cardinality({k \in DOMAIN results : results[k].success})

\* return { total: results.length, successful, failed, results }
processBatchReturns ==
    /\ pc = "loop"
    /\ call.i >= Len(call.urls)
    /\ result' = [kind |-> "batch", total |-> Len(call.results),
                  successful |-> Successes(call.results),
                  failed |-> Len(call.results) - Successes(call.results),
                  results |-> call.results]
    /\ pc' = "idle"
    /\ UNCHANGED <<graph, tx, call, pageNode, entityNodes, log, calls>>

\* POST /api/batch-process: an empty or over-long list is answered 400; else
\* one request per url is sent and Promise.allSettled awaited.
batchEndpoint(urls) ==
    /\ pc = "idle"
    /\ IF urls = <<>> \/ Len(urls) > EndpointLimit
       THEN /\ call' = Frame("endpoint", urls, Len(urls), 0)
            /\ result' = [kind |-> "http", status |-> 400]
            /\ pc' = "idle"
       ELSE /\ call' = [Frame("endpoint", urls, Len(urls), 0)
                          EXCEPT !.inflight = 1..Len(urls)]
            /\ result' = NoResult
            /\ pc' = "await"
    /\ UNCHANGED <<graph, tx, pageNode, entityNodes, log, calls>>

\* res.json({ success: true, processed, failed, results })
endpointResponds ==
    /\ pc = "await"
    /\ call.handler = "endpoint"
    /\ call.inflight = {}
    /\ LET processed == Entries(call, 0, Len(call.urls))
       IN /\ call' = [call EXCEPT !.results = processed]
          /\ result' = [kind |-> "batch", total |-> Len(processed),
                        successful |-> Successes(processed),
                        failed |-> Len(processed) - Successes(processed),
                        results |-> processed]
    /\ pc' = "idle"
    /\ UNCHANGED <<graph, tx, pageNode, entityNodes, log, calls>>

BatchNext ==
    \/ \E urls \in UrlLists, b \in BatchSizes, d \in DelaysMs : processBatch(urls, b, d)
    \/ startGroup
    \/ \E k \in 1..(EndpointLimit + 1), o \in {"ok", "failed", "unreachable"} : settle(k, o)
    \/ groupSettled
    \/ delayElapsed
    \/ processBatchReturns
    \/ \E urls \in UrlLists : batchEndpoint(urls)
    \/ endpointResponds

BatchSpec == BatchInit /\ [][BatchNext]_vars

\* C21: a batch call over a list of urls, some of which fail, completes
\* without failing; every url is attempted; the result holds one entry per
\* url in input order, marked failed exactly when the processing of that url
\* failed; successful + failed is the number of urls.
C21_OneEntryPerUrl ==
    (pc = "idle" /\ call.urls /= <<>>) =>
       /\ result.kind = "batch"
       /\ Len(result.results) = Len(call.urls)
       /\ \A k \in DOMAIN result.results :
             /\ result.results[k].url = call.urls[k]
             /\ call.outcome[k] /= "none"
             /\ result.results[k].success <=> call.outcome[k] = "ok"
       /\ result.successful + result.failed = Len(call.urls)

Groups(c) == (Len(c.urls) + c.batchSize - 1) \div c.batchSize

\* C22: during processBatch at most batchSize calls are in flight; a group
\* starts only after every call of the groups before it has settled and the
\* inter-batch delay has elapsed, and no delay follows the last group.
C22_BoundedFanOut ==
    [][/\ call'.handler = "processBatch" =>
             Cardinality(call'.inflight) <= call'.batchSize
       /\ startGroup =>
             /\ call.inflight = {}
             /\ \A k \in 1..call.i : call.outcome[k] /= "none"
             /\ call.delayMs > 0 => call.delays = call.i \div call.batchSize
       /\ processBatchReturns =>
             call.delays = IF call.delayMs > 0 /\ call.urls /= <<>>
                           THEN Groups(call) - 1 ELSE 0]_vars

\* The second group of a list of six urls in flight with the default group
\* size, after the five calls of the first group settled and one delay.
C22_Witness ==
    /\ pc = "await" /\ call.handler = "processBatch"
    /\ call.batchSize = DefaultBatchSize /\ Len(call.urls) = EndpointLimit + 1
    /\ call.i = DefaultBatchSize /\ call.inflight = {EndpointLimit + 1}
    /\ call.delays = 1
    /\ \E k \in 1..call.i : call.outcome[k] = "failed"

---------------------------------------------------------------------------
(* Concurrent use of one engine: the constructor's schema initialization and
   two storeProcessedContent calls, each in its own session and transaction.
   graph is the committed graph, log the uniqueness constraints the database
   has installed; pc, tx, call, pageNode, entityNodes and result hold one
   value per call. *)

Procs == {"a", "b"}

Other(p) == IF p = "a" THEN "b" ELSE "a"

ConstraintLabels == <<"Entity", "Page", "Domain">>

Installed == {log[k] : k \in DOMAIN log}

NoWrites == [delta |-> EmptyGraph, locks |-> {}]

\* What a transaction sees: the committed graph (read committed) with its
\* own writes laid over it.
Overlay(g, d) ==
    [domains |-> {n \in g.domains : \A m \in d.domains : m.nid /= n.nid} \cup d.domains,
     pages |-> {n \in g.pages : \A m \in d.pages : m.nid /= n.nid} \cup d.pages,
     entities |-> {n \in g.entities : \A m \in d.entities : m.nid /= n.nid} \cup d.entities,
     dcp |-> g.dcp \cup d.dcp,
     pce |-> {r \in g.pce : \A s \in d.pce : s.from /= r.from \/ s.to /= r.to} \cup d.pce,
     rels |-> {r \in g.rels : \A s \in d.rels :
                 s.from /= r.from \/ s.to /= r.to \/ s.type /= r.type} \cup d.rels]

\* The records of r that g does not hold: created or changed.
Changed(r, g) ==
    [domains |-> r.domains \ g.domains, pages |-> r.pages \ g.pages,
     entities |-> r.entities \ g.entities, dcp |-> r.dcp \ g.dcp,
     pce |-> r.pce \ g.pce, rels |-> r.rels \ g.rels]

\* Node ids are assigned by the database: two open transactions never get
\* the same id for the nodes they create.
FreshNid(v, p, n) ==
    IF n \in Nids(v) THEN n ELSE 3 * n + (IF p = "a" THEN 1 ELSE 2)

Renumber(v, p, r) ==
    [domains |-> {[n EXCEPT !.nid = FreshNid(v, p, @)] : n \in r.domains},
     pages |-> {[n EXCEPT !.nid = FreshNid(v, p, @)] : n \in r.pages},
     entities |-> {[n EXCEPT !.nid = FreshNid(v, p, @)] : n \in r.entities},
     dcp |-> {[e EXCEPT !.from = FreshNid(v, p, @), !.to = FreshNid(v, p, @)] : e \in r.dcp},
     pce |-> {[e EXCEPT !.from = FreshNid(v, p, @), !.to = FreshNid(v, p, @)] : e \in r.pce},
     rels |-> {[e EXCEPT !.from = FreshNid(v, p, @), !.to = FreshNid(v, p, @)] : e \in r.rels}]

\* Write locks, held until commit: a written node, and both end nodes of a
\* written edge.
LocksOf(d) ==
    Nids(d) \cup {e.from : e \in d.dcp \cup d.pce \cup d.rels}
            \cup {e.to : e \in d.dcp \cup d.pce \cup d.rels}

\* Under a uniqueness constraint MERGE locks the key: a node cannot be
\* created while another open transaction holds a node with that key.
KeyHeld(label, created, d) ==
    /\ label \in Installed
    /\ \/ label = "Domain" /\ \E n \in created.domains, m \in d.domains : n.name = m.name
       \/ label = "Page" /\ \E n \in created.pages, m \in d.pages : n.url = m.url
       \/ label = "Entity" /\ \E n \in created.entities, m \in d.entities : n.id = m.id

\* The statements of the step at which call p stands, run on its view.
StepOf(p) ==
    LET v == Overlay(graph, tx[p].delta)
        c == call[p]
        domain == extractDomain(c.url)
        same == [graph |-> v, pageNode |-> pageNode[p], entityNodes |-> entityNodes[p],
                 matched |-> {}]
    IN CASE pc[p] = "domain" ->
              IF domain = None THEN same
              ELSE [same EXCEPT !.graph = createDomainNode(v, domain),
                                !.matched = {d.nid : d \in DomainsNamed(v, domain)}]
         [] pc[p] = "page" ->
              LET r == createPageNode(v, c)
              IN [same EXCEPT !.graph = r.graph, !.pageNode = r.pageNode]
         [] pc[p] = "entities" ->
              LET r == createEntityNodes(v, c.entities, pageNode[p].id)
              IN [same EXCEPT !.graph = r.graph, !.entityNodes = r.entityNodes]
         [] pc[p] = "relationships" ->
              [same EXCEPT !.graph =
                  createEntityRelationships(v, c.relationships, entityNodes[p])]
         [] pc[p] = "metadata" ->
              [same EXCEPT !.graph = storeSemanticMetadata(v, c.semanticData, pageNode[p].id)]
         [] pc[p] = "stats" ->
              IF domain = None THEN same
              ELSE [same EXCEPT !.graph = updateDomainStatistics(v, domain)]

NextStep(s) ==
    CASE s = "domain" -> "page" [] s = "page" -> "entities"
      [] s = "entities" -> "relationships" [] s = "relationships" -> "metadata"
      [] s = "metadata" -> "stats" [] s = "stats" -> "commit"

UpsertSteps == {"domain", "page", "entities", "relationships", "metadata", "stats"}

\* Two contents of one address whose entity lists overlap in 'Ac'.
RaceContents ==
    {c \in Contents :
        /\ c.url = UrlLow /\ c.id = None /\ c.entities /= <<>>
        /\ \A i, j \in DOMAIN c.entities :
              i /= j => generateId(c.entities[i].text) /= generateId(c.entities[j].text)
        /\ \E i \in DOMAIN c.entities : c.entities[i].text = TextAc}

ConcurrentInit ==
    /\ graph = EmptyGraph
    /\ log = <<>>
    /\ calls = 0
    /\ pc = [p \in Procs \cup {"schema"} |-> IF p = "schema" THEN "new" ELSE "idle"]
    /\ tx = [p \in Procs |-> NoWrites]
    /\ call = [p \in Procs |-> CHOOSE c \in RaceContents : TRUE]
    /\ pageNode = [p \in Procs |-> NoNode]
    /\ entityNodes = [p \in Procs |-> <<>>]
    /\ result = [p \in Procs |-> NoResult]

\* new XoptYmiZKnowledgeGraph(config): the constructor calls
\* this.initializeSchema() without awaiting it and returns.
constructor ==
    /\ pc["schema"] = "new"
    /\ pc' = [pc EXCEPT !["schema"] = "Entity"]
    /\ UNCHANGED <<graph, tx, call, pageNode, entityNodes, result, log, calls>>

NodesOf(label, g) ==
    CASE label = "Entity" -> {n.id : n \in g.entities}
      [] label = "Page" -> {n.url : n \in g.pages}
      [] label = "Domain" -> {n.name : n \in g.domains}

CountOf(label, g) ==
    CASE label = "Entity" -> Cardinality(g.entities)
      [] label = "Page" -> Cardinality(g.pages)
      [] label = "Domain" -> Cardinality(g.domains)

\* try { await session.run(constraint) } catch { console.warn }: the
\* statement waits for the open transactions that wrote the label, fails on
\* existing duplicates or for any other reason; a failure is only logged.
initializeSchemaConstraint(ok) ==
    /\ pc["schema"] \in {"Entity", "Page", "Domain"}
    /\ \A p \in Procs : CountOf(pc["schema"], tx[p].delta) = 0
    /\ log' = IF ok /\ Cardinality(NodesOf(pc["schema"], graph)) = CountOf(pc["schema"], graph)
              THEN Append(log, pc["schema"]) ELSE log
    /\ pc' = [pc EXCEPT !["schema"] =
                CASE @ = "Entity" -> "Page" [] @ = "Page" -> "Domain"
                  [] @ = "Domain" -> "indexes"]
    /\ UNCHANGED <<graph, tx, call, pageNode, entityNodes, result, calls>>

\* The six CREATE INDEX statements, then finally session.close().
initializeSchemaIndexes ==
    /\ pc["schema"] = "indexes"
    /\ pc' = [pc EXCEPT !["schema"] = "done"]
    /\ UNCHANGED <<graph, tx, call, pageNode, entityNodes, result, log, calls>>

\* storeProcessedContent(c) on the constructed engine: session.beginTransaction().
beginTransaction(p, c) ==
    /\ pc["schema"] /= "new"
    /\ pc[p] = "idle"
    /\ pc' = [pc EXCEPT ![p] = "domain"]
    /\ call' = [call EXCEPT ![p] = c]
    /\ tx' = [tx EXCEPT ![p] = NoWrites]
    /\ calls' = calls + 1
    /\ UNCHANGED <<graph, pageNode, entityNodes, result, log>>

\* One step of call p; it waits while the other transaction holds a lock it
\* needs.
runStatements(p) ==
    /\ pc[p] \in UpsertSteps
    /\ LET v == Overlay(graph, tx[p].delta)
           s == StepOf(p)
           r == Renumber(v, p, s.graph)
           written == Changed(r, v)
           created == [written EXCEPT !.domains = {n \in @ : n.nid \notin Nids(v)},
                                      !.pages = {n \in @ : n.nid \notin Nids(v)},
                                      !.entities = {n \in @ : n.nid \notin Nids(v)}]
           needed == LocksOf(written) \cup s.matched
           held == tx[Other(p)]
       IN /\ needed \cap held.locks = {}
          /\ \A k \in DOMAIN ConstraintLabels :
                ~KeyHeld(ConstraintLabels[k], created, held.delta)
          /\ tx' = [tx EXCEPT ![p] = [delta |-> Changed(r, graph),
                                      locks |-> tx[p].locks \cup needed]]
          /\ pageNode' = [pageNode EXCEPT ![p] = s.pageNode]
          /\ entityNodes' = [entityNodes EXCEPT ![p] = s.entityNodes]
    /\ pc' = [pc EXCEPT ![p] = NextStep(@)]
    /\ UNCHANGED <<graph, call, result, log, calls>>

\* await txc.commit(); the receipt is returned and the session closed.
commitTransaction(p) ==
    /\ pc[p] = "commit"
    /\ graph' = Overlay(graph, tx[p].delta)
    /\ tx' = [tx EXCEPT ![p] = NoWrites]
    /\ result' = [result EXCEPT ![p] =
                    [kind |-> "receipt", success |-> TRUE, pageId |-> pageNode[p].id,
                     entitiesStored |-> Len(call[p].entities),
                     relationshipsStored |-> Len(call[p].relationships)]]
    /\ pc' = [pc EXCEPT ![p] = "done"]
    /\ UNCHANGED <<call, pageNode, entityNodes, log, calls>>

ConcurrentNext ==
    \/ constructor
    \/ \E ok \in BOOLEAN : initializeSchemaConstraint(ok)
    \/ initializeSchemaIndexes
    \/ \E p \in Procs, c \in RaceContents : beginTransaction(p, c)
    \/ \E p \in Procs : runStatements(p)
    \/ \E p \in Procs : commitTransaction(p)

ConcurrentSpec == ConcurrentInit /\ [][ConcurrentNext]_vars

\* C30: no ingestion write runs before schema initialization has installed
\* the uniqueness constraints on Entity id, Page url and Domain name: in every
\* interleaving of constructing the engine and calling storeProcessedContent,
\* initializeSchema has completed before the first upsert statement.
C30_SchemaBeforeWrites ==
    [][\A p \in Procs :
          (pc[p] \in UpsertSteps /\ pc'[p] /= pc[p]) =>
             /\ pc["schema"] = "done"
             /\ {"Entity", "Page", "Domain"} \subseteq Installed]_vars

\* C23: two concurrent ingestions of the same url with overlapping entities
\* leave the graph that some serial order of the two gives: one Domain, one
\* Page of version 2, one Entity per identity key whose mentionCount is the
\* number of the calls that list it, and no duplicated containment or
\* relationship edge.
C23_SerialOutcome ==
    (\A p \in Procs : pc[p] = "done") =>
       /\ Cardinality(graph.domains) = 1
       /\ Cardinality(graph.pages) = 1
       /\ \A n \in graph.pages : n.version = 2
       /\ \A p \in Procs : \A i \in DOMAIN call[p].entities :
             LET key == generateId(call[p].entities[i].text)
                 found == {n \in graph.entities : n.id = key}
             IN /\ Cardinality(found) = 1
                /\ \A n \in found :
                      n.mentionCount =
                         Cardinality({q \in Procs : \E j \in DOMAIN call[q].entities :
                                         generateId(call[q].entities[j].text) = key})
       /\ \A r, s \in graph.pce : (r.from = s.from /\ r.to = s.to) => r = s
       /\ \A r, s \in graph.rels :
             (r.from = s.from /\ r.to = s.to /\ r.type = s.type) => r = s

====
